---- MODULE Spec2Model ----
(***************************************************************************)
(* Job admission, lifecycle and event-audit engine of outliers-backend.    *)
(*                                                                         *)
(* The authoritative store (Prisma/PostgreSQL) is modelled by its tables:  *)
(* jobs, events, auditLog and the collaboration/dataset/consent tables.    *)
(* Every request handler of controllers/v1/jobs.controller.ts is a         *)
(* process whose position (pc) advances by one step per awaited store or   *)
(* adapter call, so that concurrent requests interleave exactly at the     *)
(* await points of the source.                                             *)
(*                                                                         *)
(* Nine specifications share the handlers:                                 *)
(*   Spec        the API with the store reachable;                         *)
(*   SpecF       the API with store and artifact calls that may throw;     *)
(*   SpecSeeded  the API on a store that prisma/seed.ts also writes;       *)
(*   SpecScope   job requests while collaboration membership changes;      *)
(*   SpecP       createJob over varying policy tables;                     *)
(*   SpecL       listJobs over varying stores and queries;                 *)
(*   SpecA       the artifact store: write, download and info;             *)
(*   SpecOwner   createJob while prisma/seed.ts creates the collaboration; *)
(*   SpecLogin   the login throttle of controllers/v1/auth.controller.ts.  *)
(***************************************************************************)
EXTENDS Integers, Sequences, FiniteSets, TLC

\* ------------------------------------------------------------------ bounds
\* Number of request-handling processes (HTTP requests ever issued).
MaxReqs == 3
\* Number of store or file calls that may throw in one behaviour (SpecF).
MaxFaults == 1
\* Requests issued in the specifications with wider inputs: a failing store
\* (SpecF) or a seeded store (SpecSeeded).
MaxReqsF == 2
\* Requests issued in the specification that varies the policy's tables.
MaxReqsP == 1
\* Jobs in the store that listJobs reads.
MaxJobsL == 2
\* Times the clock is read later than before while logins are served.
MaxTicks == 1
\* Login requests served.
MaxLogins == 7

Procs == 1..MaxReqs
ProcsF == 1..MaxReqsF
ProcsP == 1..MaxReqsP

\* Job ids that requests name. Every handler reads and writes only the Job
\* row (and the events) of the id in its request, so one row is followed.
JobIds == {1}

\* ------------------------------------------------------- enumerated values
NULL == "NULL"

\* enum JobStatus (migration.sql) / JobStatusEnum (schemas/jobs.ts)
JobStatus == {"PENDING", "RUNNING", "SUCCEEDED", "FAILED", "CANCELED"}
\* the statuses cancelJob refuses up front (jobs.controller.ts 363-367)
TerminalStatus == {"SUCCEEDED", "FAILED", "CANCELED"}
\* enum JobType / JobTypeEnum
JobType == {"SMPC", "TEE"}
\* enum JobEventType
JobEventType == {"QUEUED", "STARTED", "PROGRESS", "COMPLETED", "FAILED",
                 "CALLBACK", "STATUS_CHANGE"}
\* event.type accepted by jobWebhookBodySchema
WebhookEventType == {"PROGRESS", "COMPLETED", "FAILED"}

\* ------------------------------------------------------------------- state
VARIABLES
    collaborations,  \* table Collaboration: set of [id, ownerOrgId]
    participants,    \* table CollaborationParticipant: set of [collaborationId, orgId, role]
    datasets,        \* table Dataset: set of [id, orgId]
    consents,        \* table Consent: set of [id, datasetId]
    jobs,            \* table Job: sequence of rows, a job's id is its index
    events,          \* table JobEvent: rows in creation (createdAt) order
    auditLog,        \* table AuditLog: set of [orgId, action, jobId]
    artifacts,       \* artifact directory: the paths of the files written
    writes,          \* history: status writes applied to Job rows, in order
    adapterRuns,     \* history: number of runSMPC invocations per job id
    faults,          \* history: number of store or file calls that have thrown
    seed,            \* the seed script (prisma/seed.ts): its position and job id
    env,             \* config/env: env.artifact.root and env.artifact.publicBase
    auth,            \* auth.controller.ts: failedLoginByIp, failedLoginByEmail, the clock
    req              \* per request: handler, position, locals and response

vars == <<collaborations, participants, datasets, consents, jobs, events,
          auditLog, artifacts, writes, adapterRuns, faults, seed, env, auth, req>>

\* The tables the policy reads, and everything no job request writes.
tables == <<collaborations, participants, datasets, consents>>
world == <<tables, seed, env, auth>>
hist == <<writes, adapterRuns, faults>>

\* Client addresses and normalised emails: the keys of the two throttle maps.
LoginIps == {"10.0.0.1", "10.0.0.2"}
LoginKeys == {"u@x.org", "v@x.org"}

\* A key without an entry in a throttle map; in an entry, blockedUntil 0 is
\* `undefined`.
NoEntry == [count |-> 0, lastAttempt |-> 0, blockedUntil |-> 0]
\* History: the failed logins registered for a key in a row, none more than
\* the window after the one before and no successful login among them, and
\* the time of the latest.
NoStreak == [n |-> 0, last |-> 0]

\* auth.controller.ts when no login has been served: both maps are empty
\* and the clock (Date.now()) reads 0; ticks and served count the clock's
\* advances and the requests begun.
NoAttempts ==
    [failedLoginByIp |-> [k \in LoginIps |-> NoEntry],
     failedLoginByEmail |-> [k \in LoginKeys |-> NoEntry],
     now |-> 0, ticks |-> 0, served |-> 0,
     streakByIp |-> [k \in LoginIps |-> NoStreak],
     streakByEmail |-> [k \in LoginKeys |-> NoStreak]]

\* ------------------------------------------------------------ fixed inputs
\* Organizations that issue requests: the collaboration owner and an
\* organization outside the collaboration.
CallerOrgs == {"A", "X"}
\* The Organization rows.
Orgs == {"A", "B", "X"}

\* An SMPC specification as accepted by smpcSpecSchema.
SmpcSpec(op, dsIds) ==
    [defined |-> TRUE, hasDatasets |-> TRUE, operation |-> op,
     datasets |-> [i \in 1..Len(dsIds) |->
                      [datasetId |-> dsIds[i], fields |-> <<"amount">>]]]

\* The `{}` that createJob passes to the policy when input.type is not SMPC,
\* and the free-form spec of a TEE input.
EmptySpec == [defined |-> TRUE, hasDatasets |-> FALSE, operation |-> NULL,
              datasets |-> <<>>]

\* `input.spec` of a stored input that has no `spec` member: undefined.
UndefinedSpec == [EmptySpec EXCEPT !.defined = FALSE]

\* Request bodies for POST /v1/jobs accepted by createJobBodySchema.
CreateBodies ==
    { [collaborationId |-> "C", type |-> "SMPC",
       input |-> [type |-> "SMPC", spec |-> SmpcSpec("COUNT", <<"D">>)]],
      [collaborationId |-> "C", type |-> "TEE",
       input |-> [type |-> "TEE", spec |-> EmptySpec]] }

\* Optional cancellation reasons (cancelJobBodySchema); NULL is "no reason".
CancelReasons == {NULL}

\* event.data of a webhook body; the empty tuple is "no data".
WebhookData == {<<>>}

\* ------------------------------------------------------------ policy engine
Range(s) == {s[i] : i \in DOMAIN s}

Deny(reason) == [ok |-> FALSE, reason |-> reason, threw |-> FALSE]
Admit == [ok |-> TRUE, reason |-> NULL, threw |-> FALSE]
\* `spec.datasets.map` on a spec without datasets: a TypeError, not a verdict.
PolicyThrows == [ok |-> FALSE, reason |-> NULL, threw |-> TRUE]

\* The collaboration looked up by id alone, without the OR filter.
CollabInScopeAny(c, orgId) == TRUE

\* The scope filter shared by the policy and by startJob/cancelJob/getJobById:
\* collaboration: { OR: [{ownerOrgId}, {participants: {some: {orgId}}}] }
CollabInScope(c, orgId) ==
    \/ c.ownerOrgId = orgId
    \/ \E m \in participants : m.collaborationId = c.id /\ m.orgId = orgId

\* History kept on a job row (scopeAtCreate): the organizations that were
\* owner or participant of the job's collaboration when the row was stored.
InScopeOrgs(collaborationId) ==
    {o \in Orgs : \E c \in collaborations :
                     c.id = collaborationId /\ CollabInScope(c, o)}

authorizeJobCreation(callerOrgId, collaborationId, type, spec) ==
    LET found == {c \in collaborations :
                     c.id = collaborationId /\ CollabInScope(c, callerOrgId)}
    IN
    IF found = {} THEN Deny("COLLAB_NOT_FOUND_OR_FORBIDDEN")
    ELSE
    LET collab == CHOOSE c \in found : TRUE
        part == {m \in participants :
                    m.collaborationId = collaborationId /\ m.orgId = callerOrgId}
        role == IF part # {} THEN (CHOOSE m \in part : TRUE).role
                ELSE IF collab.ownerOrgId = callerOrgId THEN "BOTH" ELSE NULL
    IN
    IF role = NULL THEN Deny("NOT_A_PARTICIPANT")
    ELSE IF type = "SMPC" /\ role \notin {"PROVIDER", "CONSUMER", "BOTH"}
         THEN Deny("ROLE_FORBIDDEN")
    ELSE IF type # "SMPC" THEN Admit
    ELSE IF ~spec.hasDatasets THEN PolicyThrows
    ELSE
    LET datasetIds == [i \in 1..Len(spec.datasets) |-> spec.datasets[i].datasetId]
        rows == {d \in datasets : d.id \in Range(datasetIds)}
        datasetOrgIds == {d.orgId : d \in rows}
        memberOrgIds == {m.orgId : m \in {x \in participants :
                            x.collaborationId = collaborationId
                            /\ x.orgId \in datasetOrgIds}}
        consentCounts == {c.datasetId : c \in {x \in consents :
                            x.datasetId \in Range(datasetIds)}}
    IN
    IF Cardinality(rows) # Len(datasetIds) THEN Deny("DATASET_NOT_FOUND")
    ELSE IF Cardinality(memberOrgIds) # Cardinality(datasetOrgIds)
         THEN Deny("DATASET_ORG_NOT_PARTICIPANT")
    ELSE IF Cardinality(consentCounts) # Len(datasetIds)
         THEN Deny("MISSING_CONSENT")
    ELSE Admit

\* JSON.parse(JSON.stringify(input)): the inputs modelled here are plain JSON
\* records without undefined members, which the round trip returns unchanged.
sanitizeJobInputForStorage(input) == [type |-> input.type, spec |-> input.spec]

\* ---------------------------------------------------------- artifact store
\* Text (a URI, a path, a filename) is a sequence of tokens: the separators
\* "/", "?" and ":" and, between them, words that hold none of the three;
\* the word ".." is the only one holding two dots in a row.
\* env.artifact.publicBase where no other is named (ARTIFACT_PUBLIC_BASE is
\* optional: unset), and env.artifact.root.
ArtifactPublicBase == <<>>
ArtifactRoot == <<"/", "artifacts">>

NoUri == <<>>

\* The id column of a job as text.
JobIdText(jobId) == <<ToString(jobId)>>

\* The segments of a path: the words between its slashes.
RECURSIVE Segments(_)
Segments(text) ==
    IF text = <<>> THEN <<>>
    ELSE IF Head(text) = "/" THEN Segments(Tail(text))
    ELSE LET n == CHOOSE k \in 1..Len(text) :
                      /\ \A i \in 1..k : text[i] # "/"
                      /\ k = Len(text) \/ text[k + 1] = "/"
         IN <<SubSeq(text, 1, n)>> \o Segments(SubSeq(text, n + 1, Len(text)))

\* path.normalize on the segments of an absolute path: "." is dropped and
\* ".." removes the segment before it (none at the root).
RECURSIVE Normalized(_, _)
Normalized(done, rest) ==
    IF rest = <<>> THEN done
    ELSE IF Head(rest) = <<".">> THEN Normalized(done, Tail(rest))
    ELSE IF Head(rest) = <<"..">>
        THEN Normalized(IF done = <<>> THEN <<>>
                        ELSE SubSeq(done, 1, Len(done) - 1), Tail(rest))
    ELSE Normalized(Append(done, Head(rest)), Tail(rest))

RECURSIVE Slashed(_)
Slashed(segments) ==
    IF segments = <<>> THEN <<>>
    ELSE <<"/">> \o Head(segments) \o Slashed(Tail(segments))

\* path.join(env.artifact.root, ...parts): the parts joined by "/" and
\* normalized; the root is absolute (part_003 59-62).
PathJoin(parts) ==
    LET joined == Slashed(parts)
        segments == Normalized(<<>>, Segments(joined))
    IN IF segments = <<>> THEN <<"/">> ELSE Slashed(segments)

\* getArtifactPath (artifacts.ts 98-100)
getArtifactPath(jobId, filename) ==
    PathJoin(<<env.artifact.root, JobIdText(jobId), filename>>)

\* buildArtifactUri (artifacts.ts 50-59)
buildArtifactUri(jobId, filename) ==
    IF env.artifact.publicBase # <<>>
    THEN env.artifact.publicBase \o <<"/">> \o JobIdText(jobId) \o <<"/">> \o filename
    ELSE <<"file", ":", "/", "/">>
            \o PathJoin(<<env.artifact.root, JobIdText(jobId), filename>>)

\* The index of the last token of the longest run from `from` that holds
\* no token of `stops` (from - 1 when the run is empty).
RunEnd(text, from, stops) ==
    LET ends == {k \in from..Len(text) : \A i \in from..k : text[i] \notin stops}
    IN IF ends = {} THEN from - 1
       ELSE CHOOSE k \in ends : \A m \in ends : m <= k

LastSlash(text) ==
    LET at == {i \in DOMAIN text : text[i] = "/"}
    IN IF at = {} THEN 0 ELSE CHOOSE i \in at : \A m \in at : m <= i

\* /file:\/\/.*\/([^\/]+)$/ : "file://" somewhere, and the text after the
\* last slash, which lies behind it.
FilePattern(uri) ==
    LET k == LastSlash(uri) IN
    IF /\ k < Len(uri)
       /\ \E i \in 1..Len(uri) :
             /\ i + 4 <= k
             /\ SubSeq(uri, i, i + 3) = <<"file", ":", "/", "/">>
    THEN SubSeq(uri, k + 1, Len(uri))
    ELSE <<>>

\* /\/artifacts\/[^\/]+\/([^\/?]+)(?:\?|$)/ tried at position i: the
\* segment behind "/artifacts/<segment>/" when "?" or the end follows it.
ArtifactsPatternAt(uri, i) ==
    LET e1 == RunEnd(uri, i + 3, {"/"})
        e2 == RunEnd(uri, e1 + 2, {"/", "?"})
    IN
    IF /\ i + 2 <= Len(uri)
       /\ SubSeq(uri, i, i + 2) = <<"/", "artifacts", "/">>
       /\ e1 >= i + 3 /\ e1 < Len(uri) /\ uri[e1 + 1] = "/"
       /\ e2 >= e1 + 2
       /\ e2 = Len(uri) \/ uri[e2 + 1] = "?"
    THEN SubSeq(uri, e1 + 2, e2)
    ELSE <<>>

\* /\/([^\/?]+)(?:\?|$)/ tried at position i: the segment behind a slash
\* when "?" or the end follows it.
LastSegmentPatternAt(uri, i) ==
    LET e == RunEnd(uri, i + 1, {"/", "?"}) IN
    IF /\ uri[i] = "/"
       /\ e >= i + 1
       /\ e = Len(uri) \/ uri[e + 1] = "?"
    THEN SubSeq(uri, i + 1, e)
    ELSE <<>>

\* String.prototype.match of an unanchored pattern: its leftmost match,
\* given the match that starts at each position (<<>> where none does).
Leftmost(matchAt) ==
    LET hits == {i \in DOMAIN matchAt : matchAt[i] # <<>>}
    IN IF hits = {} THEN <<>>
       ELSE matchAt[CHOOSE i \in hits : \A m \in hits : i <= m]
ArtifactsPattern(uri) ==
    Leftmost([i \in DOMAIN uri |-> ArtifactsPatternAt(uri, i)])
LastSegmentPattern(uri) ==
    Leftmost([i \in DOMAIN uri |-> LastSegmentPatternAt(uri, i)])

\* extractFilenameFromUri answering the segment behind "/artifacts/", the
\* job id, for a public URL.
extractJobSegmentFromUri(uri) ==
    IF uri = NoUri THEN <<>>
    ELSE IF FilePattern(uri) # <<>> THEN FilePattern(uri)
    ELSE LET at == {i \in DOMAIN uri :
                       /\ i + 3 <= Len(uri)
                       /\ SubSeq(uri, i, i + 2) = <<"/", "artifacts", "/">>}
         IN IF at # {} THEN <<uri[(CHOOSE i \in at : TRUE) + 3]>>
            ELSE LastSegmentPattern(uri)

\* extractFilenameFromUri (artifacts.ts 123-144): the first of the three
\* patterns that matches; <<>> is null.
extractFilenameFromUri(uri) ==
    IF uri = NoUri THEN <<>>
    ELSE IF FilePattern(uri) # <<>> THEN FilePattern(uri)
    ELSE IF ArtifactsPattern(uri) # <<>>
        THEN ArtifactsPattern(uri)
    ELSE LastSegmentPattern(uri)

\* filename.includes('..') || path.isAbsolute(filename)
\* (artifacts.controller.ts 76)
IsTraversal(filename) ==
    \/ \E i \in DOMAIN filename : filename[i] = ".."
    \/ filename # <<>> /\ filename[1] = "/"

\* --------------------------------------------------------------- event log
\* appendJobEvent: oldStatus and newStatus default to null.
\* `by` is history: the request that appended the row.
appendJobEvent(log, p, jobId, type, oldStatus, newStatus, data) ==
    Append(log, [jobId |-> jobId, type |-> type, oldStatus |-> oldStatus,
                 newStatus |-> newStatus, data |-> data, by |-> p])

\* transitionJobStatus with an unconditional update: the row count when the
\* `status: from` condition is dropped from the where clause.
TransitionCountUnconditional(jobId, from) ==
    IF jobId \in DOMAIN jobs THEN 1 ELSE 0

\* The conditional update of transitionJobStatus:
\* updateMany({where: {id, status: from}, data: {status: to}}).count
TransitionCount(jobId, from) ==
    IF jobId \in DOMAIN jobs /\ jobs[jobId].status = from THEN 1 ELSE 0

\* cancelJob with an unconditional update: the row count when the status
\* condition is dropped from the where clause.
CancelCountUnconditional(jobId) ==
    IF jobId \in DOMAIN jobs THEN 1 ELSE 0

\* The conditional update of cancelJob's transaction:
\* updateMany({where: {id, status: {in: [PENDING, RUNNING]}}}).count
CancelCount(jobId) ==
    IF jobId \in DOMAIN jobs /\ jobs[jobId].status \in {"PENDING", "RUNNING"}
    THEN 1 ELSE 0

\* A status update that replaces the row's outputs as well.
SetStatusResetting(jobId, to) ==
    [jobs EXCEPT ![jobId].status = to, ![jobId].artifactUri = NoUri,
                 ![jobId].result = NULL]

\* A status write applied to a Job row, with the status it replaced.
SetStatus(jobId, to) == [jobs EXCEPT ![jobId].status = to]
LogWrite(jobId, to, p) ==
    Append(writes, [jobId |-> jobId, old |-> jobs[jobId].status, new |-> to,
                    by |-> p])

\* ------------------------------------------------------------------ adapter
\* assertValidSmpcRunInput: the message thrown, or NULL when the spec passes.
assertValidSmpcRunInput(spec) ==
    IF ~spec.defined
        THEN "SMPC spec is required"
    ELSE IF spec.operation \notin {"COUNT", "SUM", "AVG"}
        THEN "Unsupported SMPC operation"
    ELSE IF Len(spec.datasets) = 0
        THEN "SMPC spec must include at least one dataset"
    ELSE IF \E i \in DOMAIN spec.datasets : spec.datasets[i].datasetId = NULL
        THEN "Each dataset must have a non empty datasetId"
    ELSE IF \E i \in DOMAIN spec.datasets : Len(spec.datasets[i].fields) = 0
        THEN "Dataset must have at least one field"
    ELSE NULL

\* runSMPC answering every operation with the SUM stub.
StubResultSum(operation) == "{sum:424242}"

\* The stub result of runSMPC by operation.
StubResult(operation) ==
    IF operation = "COUNT" THEN "{total:1337}"
    ELSE IF operation = "SUM" THEN "{sum:424242}"
    ELSE "{avg:123.45}"

\* getDefaultArtifactFilename / the filename runSMPC writes
ResultFilename == <<"result.json">>

\* ---------------------------------------------------------------- requests
NoBody == [collaborationId |-> NULL, type |-> NULL,
           input |-> [type |-> NULL, spec |-> EmptySpec]]
\* The `job` local of a handler: the columns its query selected. In a
\* request, atReturn is history: the stored status when runSMPC returned;
\* following is history: the job's creation had completed (its createJob
\* had answered, or the seed script had stored its row) when this startJob
\* read it.
NoJob == [status |-> NULL, type |-> NULL,
          input |-> [type |-> NULL, spec |-> EmptySpec]]
NoOut == [artifactUri |-> NoUri, result |-> NULL]
NoResp == [status |-> 0, code |-> NULL]

\* The query of a listJobs request with no filter supplied; a time of 0 is
\* "not supplied".
NoQuery == [type |-> NULL, status |-> NULL, collaborationId |-> NULL,
            createdAfter |-> 0, createdBefore |-> 0, q |-> <<>>,
            page |-> 1, pageSize |-> 1]

IdleReq == [kind |-> "none", pc |-> "idle", org |-> NULL, jobId |-> 0,
            body |-> NoBody, job |-> NoJob, event |-> NULL, data |-> <<>>,
            reason |-> NULL, out |-> NoOut, atReturn |-> NULL,
            following |-> FALSE, resp |-> NoResp]

\* The locals of a listJobs request: the query and the list answered.
ListReq(org, query, list) ==
    [kind |-> "list", pc |-> "audit", org |-> org, jobId |-> 0,
     query |-> query, list |-> list, resp |-> NoResp]

\* The locals of a request for an artifact: filename is the name it was
\* given or took from the job's URI, path the store path it resolved from
\* it, uri the URI returned, reason the error thrown.
ArtifactReq(kind, org, jobId) ==
    [kind |-> kind, pc |-> "idle", org |-> org, jobId |-> jobId,
     filename |-> <<>>, path |-> <<>>, uri |-> NoUri, reason |-> NULL,
     resp |-> NoResp]

Resp(status, code) == [status |-> status, code |-> code]

\* Requests are numbered in arrival order.
Fresh(p) ==
    /\ req[p].kind = "none"
    /\ \A q \in Procs : q < p => req[q].kind # "none"

At(p, kind, pc) == req[p].kind = kind /\ req[p].pc = pc

\* The request moves to position pc (its other locals unchanged).
Goto(p, pc) == [req EXCEPT ![p].pc = pc]
\* The request ends with the given response.
Finish(p, status, code) ==
    [req EXCEPT ![p].pc = "done", ![p].resp = Resp(status, code)]

\* findFirst by id alone, without the collaboration filter.
ScopedJobAny(jobId, orgId) == jobId \in DOMAIN jobs

\* findFirst scoped by the membership at the time the job was created.
ScopedJobAtCreate(jobId, orgId) ==
    /\ jobId \in DOMAIN jobs
    /\ orgId \in jobs[jobId].scopeAtCreate

\* JOB_NOT_FOUND / row selected by findFirst with the collaboration scope
ScopedJob(jobId, orgId) ==
    /\ jobId \in DOMAIN jobs
    /\ \E c \in collaborations :
          c.id = jobs[jobId].collaborationId /\ CollabInScope(c, orgId)

Selected(jobId) ==
    [status |-> jobs[jobId].status, type |-> jobs[jobId].type,
     input |-> jobs[jobId].input]

\* The createJob request that persisted jobId has answered 201.
Created(jobId) ==
    \E c \in Procs : /\ req[c].kind = "create" /\ req[c].jobId = jobId
                     /\ req[c].resp.status = 201

\* The seed script has stored the row of jobId (part_015 213-223).
Seeded(jobId) == seed.jobId = jobId

\* writeAudit: one AuditLog row per call.
writeAudit(p, orgId, action, jobId) ==
    auditLog \cup {[by |-> p, orgId |-> orgId, action |-> action, jobId |-> jobId]}

\* -------------------------------------------------------------------- Init
\* The store before any job request: collaboration C owned by A (whom
\* createCollaboration enrols as BOTH) with participant (B, CONSUMER), and
\* dataset D of B with one consent. No job exists yet.
Init ==
    /\ collaborations = {[id |-> "C", ownerOrgId |-> "A"]}
    /\ participants = {[collaborationId |-> "C", orgId |-> "A", role |-> "BOTH"],
                       [collaborationId |-> "C", orgId |-> "B", role |-> "CONSUMER"]}
    /\ datasets = {[id |-> "D", orgId |-> "B"]}
    /\ consents = {[id |-> "K", datasetId |-> "D"]}
    /\ jobs = <<>>
    /\ events = <<>>
    /\ auditLog = {}
    /\ artifacts = {}
    /\ writes = <<>>
    /\ adapterRuns = [j \in JobIds |-> 0]
    /\ faults = 0
    /\ seed = [pc |-> "create", jobId |-> 0]
    /\ env = [artifact |-> [root |-> ArtifactRoot, publicBase |-> ArtifactPublicBase]]
    /\ auth = NoAttempts
    /\ req = [p \in Procs |-> IdleReq]

\* --------------------------------------------------------------- createJob
\* createJob requests admitted by the policy whose row is not yet persisted.
Admitted == {q \in Procs : At(q, "create", "persist")}

\* createJob without the `return` of its deny branch: the 403 is sent and
\* the handler goes on to persist the job.
CreateJobRequestNoReturn(p, orgs, bodies) ==
    \E org \in orgs, body \in bodies :
        LET spec == IF body.input.type = "SMPC" THEN body.input.spec ELSE EmptySpec
            authz == authorizeJobCreation(org, body.collaborationId, body.type, spec)
            r == [req[p] EXCEPT !.kind = "create", !.org = org, !.body = body]
        IN
        /\ Fresh(p)
        /\ ~authz.threw => Len(jobs) + Cardinality(Admitted) < Cardinality(JobIds)
        /\ req' = [req EXCEPT ![p] =
                IF authz.threw
                    THEN [r EXCEPT !.pc = "done", !.resp = Resp(500, "INTERNAL")]
                ELSE IF ~authz.ok
                    THEN [r EXCEPT !.pc = "persist", !.resp = Resp(403, authz.reason)]
                ELSE [r EXCEPT !.pc = "persist"]]
        /\ UNCHANGED <<world, jobs, events, auditLog, artifacts, hist>>

\* POST /v1/jobs: the policy decision (jobs.controller.ts 24-35), for a
\* caller among orgs and a body among bodies.
CreateJobRequest(p, orgs, bodies) ==
    \E org \in orgs, body \in bodies :
        LET spec == IF body.input.type = "SMPC" THEN body.input.spec ELSE EmptySpec
            authz == authorizeJobCreation(org, body.collaborationId, body.type, spec)
            r == [req[p] EXCEPT !.kind = "create", !.org = org, !.body = body]
        IN
        /\ Fresh(p)
        /\ authz.ok => Len(jobs) + Cardinality(Admitted) < Cardinality(JobIds)
        /\ req' = [req EXCEPT ![p] =
                IF authz.threw
                    THEN [r EXCEPT !.pc = "done", !.resp = Resp(500, "INTERNAL")]
                ELSE IF ~authz.ok
                    THEN [r EXCEPT !.pc = "done", !.resp = Resp(403, authz.reason)]
                ELSE [r EXCEPT !.pc = "persist"]]
        /\ UNCHANGED <<world, jobs, events, auditLog, artifacts, hist>>

CreateJobAuthorize(p) == CreateJobRequest(p, CallerOrgs, CreateBodies)

\* prisma.job.create (37-46); the new row's id is kept in the request.
CreateJobPersist(p) ==
    /\ At(p, "create", "persist")
    /\ LET id == Len(jobs) + 1 IN
        /\ jobs' = Append(jobs,
                [id |-> id, collaborationId |-> req[p].body.collaborationId,
                 type |-> req[p].body.type, status |-> "PENDING",
                 input |-> sanitizeJobInputForStorage(req[p].body.input),
                 artifactUri |-> NoUri, result |-> NULL,
                 scopeAtCreate |-> InScopeOrgs(req[p].body.collaborationId)])
        /\ req' = [req EXCEPT ![p].pc = "queued", ![p].jobId = id]
    /\ UNCHANGED <<world, events, auditLog, artifacts, hist>>

\* appendJobEvent QUEUED (48-52)
CreateJobQueuedEvent(p) ==
    /\ At(p, "create", "queued")
    /\ events' = appendJobEvent(events, p, req[p].jobId, "QUEUED", NULL, NULL,
                                <<"reason", "created">>)
    /\ req' = Goto(p, "audit")
    /\ UNCHANGED <<world, jobs, auditLog, artifacts, hist>>

\* writeAudit JOB_CREATE and the 201 response (53-55)
CreateJobAudit(p) ==
    /\ At(p, "create", "audit")
    /\ auditLog' = writeAudit(p, req[p].org, "JOB_CREATE", req[p].jobId)
    /\ req' = Finish(p, 201, "CREATED")
    /\ UNCHANGED <<world, jobs, events, artifacts, hist>>

createJob(p) ==
    \/ CreateJobAuthorize(p)
    \/ CreateJobPersist(p)
    \/ CreateJobQueuedEvent(p)
    \/ CreateJobAudit(p)

\* ---------------------------------------------------------------- startJob
\* POST /v1/jobs/:id/start: scope check and status check (68-87).
StartJobFind(p) ==
    \E org \in CallerOrgs, jobId \in JobIds :
        LET r == [req[p] EXCEPT !.kind = "start", !.org = org, !.jobId = jobId,
                                !.following = (Created(jobId) \/ Seeded(jobId))]
        IN
        /\ Fresh(p)
        /\ req' = [req EXCEPT ![p] =
                IF ~ScopedJob(jobId, org)
                    THEN [r EXCEPT !.pc = "done", !.resp = Resp(404, "JOB_NOT_FOUND")]
                ELSE IF jobs[jobId].status # "PENDING"
                    THEN [r EXCEPT !.pc = "done", !.resp = Resp(409, "INVALID_STATE"),
                                   !.job = Selected(jobId)]
                ELSE [r EXCEPT !.pc = "transition", !.job = Selected(jobId)]]
        /\ UNCHANGED <<world, jobs, events, auditLog, artifacts, hist>>

\* transitionJobStatus, the conditional update (part_008 26-32); its throw
\* reaches startJob's outer catch, next(err) and errorHandler's fallback
\* (part_007 89-98).
StartJobTransition(p) ==
    /\ At(p, "start", "transition")
    /\ LET jobId == req[p].jobId IN
       IF TransitionCount(jobId, "PENDING") = 1
       THEN /\ jobs' = SetStatus(jobId, "RUNNING")
            /\ writes' = LogWrite(jobId, "RUNNING", p)
            /\ req' = Goto(p, "started")
       ELSE /\ req' = Finish(p, 500, "INTERNAL")
            /\ UNCHANGED <<jobs, writes>>
    /\ UNCHANGED <<world, events, auditLog, artifacts, adapterRuns, faults>>

\* transitionJobStatus, the event of the transition (part_008 33)
StartJobStartedEvent(p) ==
    /\ At(p, "start", "started")
    /\ events' = appendJobEvent(events, p, req[p].jobId, "STARTED",
                                "PENDING", "RUNNING", <<>>)
    /\ req' = Goto(p, "audit")
    /\ UNCHANGED <<world, jobs, auditLog, artifacts, hist>>

\* writeAudit JOB_START (96), then the branch on job.type (99, 152)
StartJobAudit(p) ==
    /\ At(p, "start", "audit")
    /\ auditLog' = writeAudit(p, req[p].org, "JOB_START", req[p].jobId)
    /\ req' = Goto(p, IF req[p].job.type = "SMPC" THEN "adapter" ELSE "tee")
    /\ UNCHANGED <<world, jobs, events, artifacts, hist>>

\* runSMPC whose catch of a failed artifact write leaves artifactUri null.
RunSMPCNoFallback(p, written) ==
    /\ At(p, "start", "adapter")
    /\ LET jobId == req[p].jobId
           spec == req[p].job.input.spec
           message == assertValidSmpcRunInput(spec)
       IN
       /\ adapterRuns' = [adapterRuns EXCEPT ![jobId] = @ + 1]
       /\ IF message # NULL
          THEN /\ req' = [req EXCEPT ![p].pc = "catch", ![p].reason = message,
                             ![p].atReturn = jobs[jobId].status]
               /\ UNCHANGED artifacts
          ELSE /\ req' = [req EXCEPT ![p].pc = "complete",
                             ![p].atReturn = jobs[jobId].status,
                             ![p].out = [artifactUri |->
                                            IF written
                                            THEN buildArtifactUri(jobId, ResultFilename)
                                            ELSE NoUri,
                                         result |-> StubResult(spec.operation)]]
               /\ artifacts' = IF written
                               THEN artifacts \cup {getArtifactPath(jobId, ResultFilename)}
                               ELSE artifacts
    /\ UNCHANGED <<world, jobs, events, auditLog, writes>>

\* runSMPC(spec, jobId) (smpc.ts 70-109): validation, the stub result, and
\* the artifact write; `written` tells whether writeJsonArtifact succeeded.
\* When it throws, runSMPC catches the error and returns the built URI.
RunSMPC(p, written) ==
    /\ At(p, "start", "adapter")
    /\ LET jobId == req[p].jobId
           spec == req[p].job.input.spec
           message == assertValidSmpcRunInput(spec)
       IN
       /\ adapterRuns' = [adapterRuns EXCEPT ![jobId] = @ + 1]
       /\ IF message # NULL
          THEN /\ req' = [req EXCEPT ![p].pc = "catch", ![p].reason = message,
                             ![p].atReturn = jobs[jobId].status]
               /\ UNCHANGED artifacts
          ELSE /\ req' = [req EXCEPT ![p].pc = "complete",
                             ![p].atReturn = jobs[jobId].status,
                             ![p].out = [artifactUri |-> buildArtifactUri(jobId, ResultFilename),
                                         result |-> StubResult(spec.operation)]]
               /\ artifacts' = IF written
                               THEN artifacts \cup {getArtifactPath(jobId, ResultFilename)}
                               ELSE artifacts
    /\ UNCHANGED <<world, jobs, events, auditLog, writes>>

\* The adapter call of startJob (103), the artifact written.
StartJobRunAdapter(p) ==
    /\ RunSMPC(p, TRUE)
    /\ UNCHANGED faults

\* prisma.job.update to SUCCEEDED with artifactUri and result (107-114)
StartJobComplete(p) ==
    /\ At(p, "start", "complete")
    /\ LET jobId == req[p].jobId IN
       /\ jobs' = [jobs EXCEPT ![jobId].status = "SUCCEEDED",
                               ![jobId].artifactUri = req[p].out.artifactUri,
                               ![jobId].result = req[p].out.result]
       /\ writes' = LogWrite(jobId, "SUCCEEDED", p)
    /\ req' = Goto(p, "completed")
    /\ UNCHANGED <<world, events, auditLog, artifacts, adapterRuns, faults>>

\* appendJobEvent COMPLETED RUNNING -> SUCCEEDED (116-122)
StartJobCompletedEvent(p) ==
    /\ At(p, "start", "completed")
    /\ events' = appendJobEvent(events, p, req[p].jobId, "COMPLETED",
                                "RUNNING", "SUCCEEDED",
                                <<"artifactUri">> \o req[p].out.artifactUri)
    /\ req' = Goto(p, "auditComplete")
    /\ UNCHANGED <<world, jobs, auditLog, artifacts, hist>>

\* writeAudit JOB_COMPLETE and the 200 response (124-127, 161)
StartJobCompleteAudit(p) ==
    /\ At(p, "start", "auditComplete")
    /\ auditLog' = writeAudit(p, req[p].org, "JOB_COMPLETE", req[p].jobId)
    /\ req' = Finish(p, 200, "OK")
    /\ UNCHANGED <<world, jobs, events, artifacts, hist>>

\* No adapter for the type, and the gap passed over in silence: no event.
StartJobNoAdapterSilent(p) ==
    /\ At(p, "start", "tee")
    /\ req' = Finish(p, 200, "OK")
    /\ UNCHANGED <<world, jobs, events, auditLog, artifacts, hist>>

\* No adapter for the type: a PROGRESS event and the 200 response (152-161)
StartJobNoAdapter(p) ==
    /\ At(p, "start", "tee")
    /\ events' = appendJobEvent(events, p, req[p].jobId, "PROGRESS", NULL, NULL,
                                <<"note", "TEE stub not implemented">>)
    /\ req' = Finish(p, 200, "OK")
    /\ UNCHANGED <<world, jobs, auditLog, artifacts, hist>>

startJob(p) ==
    \/ StartJobFind(p)
    \/ StartJobTransition(p)
    \/ StartJobStartedEvent(p)
    \/ StartJobAudit(p)
    \/ StartJobRunAdapter(p)
    \/ StartJobComplete(p)
    \/ StartJobCompletedEvent(p)
    \/ StartJobCompleteAudit(p)
    \/ StartJobNoAdapter(p)

\* --------------------------------------------------------------- cancelJob
\* POST /v1/jobs/:id/cancel: scope check and terminal check (347-371), for
\* a body whose reason is among reasons.
CancelJobRequest(p, reasons) ==
    \E org \in CallerOrgs, jobId \in JobIds, reason \in reasons :
        LET r == [req[p] EXCEPT !.kind = "cancel", !.org = org, !.jobId = jobId,
                                !.reason = reason]
        IN
        /\ Fresh(p)
        /\ req' = [req EXCEPT ![p] =
                IF ~ScopedJob(jobId, org)
                    THEN [r EXCEPT !.pc = "done", !.resp = Resp(404, "JOB_NOT_FOUND")]
                ELSE IF jobs[jobId].status \in TerminalStatus
                    THEN [r EXCEPT !.pc = "done", !.resp = Resp(409, "INVALID_STATE"),
                                   !.job = Selected(jobId)]
                ELSE [r EXCEPT !.pc = "transaction", !.job = Selected(jobId)]]
        /\ UNCHANGED <<world, jobs, events, auditLog, artifacts, hist>>

CancelJobFind(p) == CancelJobRequest(p, CancelReasons)

\* prisma.$transaction: the conditional update and the STATUS_CHANGE event
\* commit together; INVALID_TRANSITION is answered 409 (374-396, 402-409).
CancelJobTransaction(p) ==
    /\ At(p, "cancel", "transaction")
    /\ LET jobId == req[p].jobId IN
       IF CancelCount(jobId) = 1
       THEN /\ jobs' = SetStatus(jobId, "CANCELED")
            /\ writes' = LogWrite(jobId, "CANCELED", p)
            /\ events' = appendJobEvent(events, p, jobId, "STATUS_CHANGE",
                             req[p].job.status, "CANCELED",
                             IF req[p].reason # NULL
                             THEN <<"reason", req[p].reason>> ELSE <<>>)
            /\ req' = Goto(p, "audit")
       ELSE /\ req' = Finish(p, 409, "INVALID_STATE")
            /\ UNCHANGED <<jobs, writes, events>>
    /\ UNCHANGED <<world, auditLog, artifacts, adapterRuns, faults>>

\* writeAudit JOB_CANCEL and the 200 response (398-400)
CancelJobAudit(p) ==
    /\ At(p, "cancel", "audit")
    /\ auditLog' = writeAudit(p, req[p].org, "JOB_CANCEL", req[p].jobId)
    /\ req' = Finish(p, 200, "OK")
    /\ UNCHANGED <<world, jobs, events, artifacts, hist>>

cancelJob(p) ==
    \/ CancelJobFind(p)
    \/ CancelJobTransaction(p)
    \/ CancelJobAudit(p)

\* -------------------------------------------------------------- jobWebhook
\* POST /v1/webhooks/jobs: findUnique by id, no scope (222-230).
WebhookFind(p) ==
    \E jobId \in JobIds, type \in WebhookEventType, data \in WebhookData :
        LET r == [req[p] EXCEPT !.kind = "webhook", !.jobId = jobId,
                                !.event = type, !.data = data]
        IN
        /\ Fresh(p)
        /\ req' = [req EXCEPT ![p] =
                IF jobId \notin DOMAIN jobs
                    THEN [r EXCEPT !.pc = "done", !.resp = Resp(404, "JOB_NOT_FOUND")]
                ELSE [r EXCEPT !.pc = IF type = "PROGRESS" THEN "progress" ELSE "update",
                               !.job = [NoJob EXCEPT !.status = jobs[jobId].status]]]
        /\ UNCHANGED <<world, jobs, events, auditLog, artifacts, hist>>

\* PROGRESS recorded as a status event: the event carries the status read.
WebhookProgressWithStatus(p) ==
    /\ At(p, "webhook", "progress")
    /\ events' = appendJobEvent(events, p, req[p].jobId, "PROGRESS",
                                req[p].job.status, req[p].job.status, req[p].data)
    /\ req' = Finish(p, 200, "OK")
    /\ UNCHANGED <<world, jobs, auditLog, artifacts, hist>>

\* PROGRESS: a diagnostic event and the 200 response (232-233, 260)
WebhookProgress(p) ==
    /\ At(p, "webhook", "progress")
    /\ events' = appendJobEvent(events, p, req[p].jobId, "PROGRESS", NULL, NULL,
                                req[p].data)
    /\ req' = Finish(p, 200, "OK")
    /\ UNCHANGED <<world, jobs, auditLog, artifacts, hist>>

\* The status a COMPLETED / FAILED callback writes.
WebhookStatus(type) == IF type = "COMPLETED" THEN "SUCCEEDED" ELSE "FAILED"

\* The guard of the callback's status write: prisma.job.update has none.
WebhookMayWrite(jobId) == jobId \in DOMAIN jobs

\* COMPLETED / FAILED: prisma.job.update by id alone (235-238, 247-250)
WebhookUpdate(p) ==
    /\ At(p, "webhook", "update")
    /\ WebhookMayWrite(req[p].jobId)
    /\ jobs' = SetStatus(req[p].jobId, WebhookStatus(req[p].event))
    /\ writes' = LogWrite(req[p].jobId, WebhookStatus(req[p].event), p)
    /\ req' = Goto(p, "event")
    /\ UNCHANGED <<world, events, auditLog, artifacts, adapterRuns, faults>>

\* the event with oldStatus = the status read at 222, and the 200 response
\* (239-245, 251-257, 260)
WebhookEvent(p) ==
    /\ At(p, "webhook", "event")
    /\ events' = appendJobEvent(events, p, req[p].jobId, req[p].event,
                                req[p].job.status, WebhookStatus(req[p].event),
                                req[p].data)
    /\ req' = Finish(p, 200, "OK")
    /\ UNCHANGED <<world, jobs, auditLog, artifacts, hist>>

jobWebhook(p) ==
    \/ WebhookFind(p)
    \/ WebhookProgress(p)
    \/ WebhookUpdate(p)
    \/ WebhookEvent(p)

\* ------------------------------------------------------------ specification
\* The store and the artifact directory are reachable: every awaited call
\* returns.
Next ==
    \E p \in Procs :
        \/ createJob(p)
        \/ startJob(p)
        \/ cancelJob(p)
        \/ jobWebhook(p)

Spec == Init /\ [][Next]_vars

\* ------------------------------------------------- startJob, the catch path
\* Reached when runSMPC or a store call inside the try block (102-127) throws.

\* prisma.job.update to FAILED, by id alone (133-136)
StartJobFail(p) ==
    /\ At(p, "start", "catch")
    /\ jobs' = SetStatus(req[p].jobId, "FAILED")
    /\ writes' = LogWrite(req[p].jobId, "FAILED", p)
    /\ req' = Goto(p, "failed")
    /\ UNCHANGED <<world, events, auditLog, artifacts, adapterRuns, faults>>

\* The FAILED event recorded with the fallback text instead of err.message.
StartJobFailedEventNoMessage(p) ==
    /\ At(p, "start", "failed")
    /\ events' = appendJobEvent(events, p, req[p].jobId, "FAILED",
                                "RUNNING", "FAILED",
                                <<"error", "SMPC job failed with an unknown error">>)
    /\ req' = Goto(p, "auditFailed")
    /\ UNCHANGED <<world, jobs, auditLog, artifacts, hist>>

\* appendJobEvent FAILED RUNNING -> FAILED with the error message (138-144)
StartJobFailedEvent(p) ==
    /\ At(p, "start", "failed")
    /\ events' = appendJobEvent(events, p, req[p].jobId, "FAILED",
                                "RUNNING", "FAILED", <<"error", req[p].reason>>)
    /\ req' = Goto(p, "auditFailed")
    /\ UNCHANGED <<world, jobs, auditLog, artifacts, hist>>

\* writeAudit JOB_COMPLETE (FAILED) and the 200 response (146-150, 161)
StartJobFailAudit(p) ==
    /\ At(p, "start", "auditFailed")
    /\ auditLog' = writeAudit(p, req[p].org, "JOB_COMPLETE", req[p].jobId)
    /\ req' = Finish(p, 200, "OK")
    /\ UNCHANGED <<world, jobs, events, artifacts, hist>>

startJobCatch(p) ==
    \/ StartJobFail(p)
    \/ StartJobFailedEvent(p)
    \/ StartJobFailAudit(p)

\* ------------------------------------------------------------ store failure
\* Positions whose next step is a store write (create, update, updateMany,
\* $transaction).
StoreCallPcs ==
    [create |-> {"persist", "queued", "audit"},
     start |-> {"transition", "started", "audit", "complete", "completed",
                "auditComplete", "tee", "catch", "failed", "auditFailed"},
     cancel |-> {"transaction", "audit"},
     webhook |-> {"progress", "update", "event"}]

\* Positions of startJob inside its try block (102-127): a throw there is
\* caught at 128 and handled as an adapter failure.
TryBlockPcs == {"complete", "completed", "auditComplete"}

\* The store call the request is about to make throws. Inside startJob's try
\* block the inner catch takes over; everywhere else the handler's outer
\* catch passes the error to errorHandler (500 INTERNAL). A failed
\* $transaction rolls back, so nothing of it is written.
StoreFails(p) ==
    /\ faults < MaxFaults
    /\ req[p].kind \in DOMAIN StoreCallPcs
    /\ req[p].pc \in StoreCallPcs[req[p].kind]
    /\ faults' = faults + 1
    /\ req' = IF req[p].kind = "start" /\ req[p].pc \in TryBlockPcs
              THEN [req EXCEPT ![p].pc = "catch", ![p].reason = "store error"]
              ELSE Finish(p, 500, "INTERNAL")
    /\ UNCHANGED <<world, jobs, events, auditLog, artifacts, writes, adapterRuns>>

\* The adapter call of startJob when the artifact write throws (smpc.ts
\* 98-105): the result is returned with the would-be URI.
StartJobRunAdapterNoArtifact(p) ==
    /\ faults < MaxFaults
    /\ RunSMPC(p, FALSE)
    /\ faults' = faults + 1

\* The store or the artifact directory may fail: up to MaxFaults calls throw.
NextF ==
    \E p \in ProcsF :
        \/ createJob(p)
        \/ startJob(p)
        \/ startJobCatch(p)
        \/ cancelJob(p)
        \/ jobWebhook(p)
        \/ StoreFails(p)
        \/ StartJobRunAdapterNoArtifact(p)

SpecF == Init /\ [][NextF]_vars

\* ------------------------------------------------------------- seeded store
\* prisma/seed.ts (part_015 212-276) writes a demo SMPC job directly, without
\* createJob: the row, then its event trail, then the SUCCEEDED update, then
\* two audit rows. The stored input has no `spec` member.
SeedInput == [type |-> NULL, spec |-> UndefinedSpec]
SeedArtifactUri(jobId) ==
    <<"s3", ":", "/", "/", "outliers-example", "/", "jobs", "/">>
        \o JobIdText(jobId) \o <<"/", "artifact.json">>
SeedResult == "{totals:[{month:2025-01,total:12345}]}"
\* The `by` of rows the seed script writes.
SeedProc == 0

\* prisma.job.create (part_015 213-223)
SeedJobCreate ==
    /\ seed.pc = "create"
    /\ Len(jobs) + Cardinality(Admitted) < Cardinality(JobIds)
    /\ LET id == Len(jobs) + 1 IN
        /\ jobs' = Append(jobs,
                [id |-> id, collaborationId |-> "C", type |-> "SMPC",
                 status |-> "PENDING", input |-> SeedInput,
                 artifactUri |-> NoUri, result |-> NULL,
                 scopeAtCreate |-> InScopeOrgs("C")])
        /\ seed' = [pc |-> "events", jobId |-> id]
    /\ UNCHANGED <<tables, env, auth, events, auditLog, artifacts, hist, req>>

\* prisma.jobEvent.createMany (part_015 226-244)
SeedJobEvents ==
    /\ seed.pc = "events"
    /\ LET j == seed.jobId
           e1 == appendJobEvent(events, SeedProc, j, "QUEUED", NULL, "PENDING",
                                <<"note", "job created">>)
           e2 == appendJobEvent(e1, SeedProc, j, "STARTED", "PENDING", "RUNNING", <<>>)
           e3 == appendJobEvent(e2, SeedProc, j, "PROGRESS", NULL, NULL,
                                <<"step", "smpc_init">>)
       IN events' = appendJobEvent(e3, SeedProc, j, "COMPLETED", "RUNNING",
                                   "SUCCEEDED", <<"resultPreview">>)
    /\ seed' = [seed EXCEPT !.pc = "update"]
    /\ UNCHANGED <<tables, env, auth, jobs, auditLog, artifacts, hist, req>>

\* prisma.job.update to SUCCEEDED by id alone (part_015 246-253)
SeedJobUpdate ==
    /\ seed.pc = "update"
    /\ jobs' = [jobs EXCEPT ![seed.jobId].status = "SUCCEEDED",
                            ![seed.jobId].artifactUri = SeedArtifactUri(seed.jobId),
                            ![seed.jobId].result = SeedResult]
    /\ writes' = LogWrite(seed.jobId, "SUCCEEDED", SeedProc)
    /\ seed' = [seed EXCEPT !.pc = "audit"]
    /\ UNCHANGED <<tables, env, auth, events, auditLog, artifacts, adapterRuns, faults, req>>

\* prisma.auditLog.createMany (part_015 257-276)
SeedAudit ==
    /\ seed.pc = "audit"
    /\ auditLog' = writeAudit(SeedProc, "A", "JOB_STATUS_CHANGE", seed.jobId)
                       \cup {[by |-> SeedProc, orgId |-> "A",
                              action |-> "DATASET_CREATE", jobId |-> 0]}
    /\ seed' = [seed EXCEPT !.pc = "done"]
    /\ UNCHANGED <<tables, env, auth, jobs, events, artifacts, hist, req>>

seedJob ==
    \/ SeedJobCreate
    \/ SeedJobEvents
    \/ SeedJobUpdate
    \/ SeedAudit

\* Cancellation bodies with and without a reason.
AnyCancelReasons == {NULL, "no longer needed"}

CancelJobFindAny(p) == CancelJobRequest(p, AnyCancelReasons)

cancelJobAny(p) ==
    \/ CancelJobFindAny(p)
    \/ CancelJobTransaction(p)
    \/ CancelJobAudit(p)

\* The store is reachable; jobs come from createJob or from the seed script,
\* and are started and cancelled through the API.
NextSeeded ==
    \/ seedJob
    \/ \E p \in ProcsF :
          \/ createJob(p)
          \/ startJob(p)
          \/ startJobCatch(p)
          \/ cancelJobAny(p)

SpecSeeded == Init /\ [][NextSeeded]_vars

\* -------------------------------------------------------- changing membership
\* GET /v1/jobs/:id (jobs.controller.ts 167-211): one scoped read, no write
\* and no audit row.
GetJobById(p) ==
    \E org \in CallerOrgs, jobId \in JobIds :
        LET r == [req[p] EXCEPT !.kind = "get", !.org = org, !.jobId = jobId] IN
        /\ Fresh(p)
        /\ req' = [req EXCEPT ![p] =
                IF ~ScopedJob(jobId, org)
                    THEN [r EXCEPT !.pc = "done", !.resp = Resp(404, "JOB_NOT_FOUND")]
                ELSE [r EXCEPT !.pc = "done", !.resp = Resp(200, "OK"),
                               !.job = Selected(jobId)]]
        /\ UNCHANGED <<world, jobs, events, auditLog, artifacts, hist>>

\* Roles of addParticipantBodySchema given to a joining organization.
JoinRoles == {"PROVIDER", "CONSUMER"}

\* POST /v1/collaborations/:id/participants by the owner organization
\* (orgs.controller.ts 103-160): X joins collaboration C. A second row for
\* the same organization violates the unique index and is answered 409.
AddCollaborationParticipant ==
    \E role \in JoinRoles :
        /\ ~\E m \in participants : m.collaborationId = "C" /\ m.orgId = "X"
        /\ participants' = participants \cup
               {[collaborationId |-> "C", orgId |-> "X", role |-> role]}
        /\ UNCHANGED <<collaborations, datasets, consents, seed, env, auth, jobs, events,
                       auditLog, artifacts, hist, req>>

\* A CollaborationParticipant row is deleted in the database (the table of
\* migration.sql 60-67; no endpoint of the API deletes one): X leaves C.
DeleteCollaborationParticipant ==
    /\ \E m \in participants : m.collaborationId = "C" /\ m.orgId = "X"
    /\ participants' =
           {m \in participants : ~(m.collaborationId = "C" /\ m.orgId = "X")}
    /\ UNCHANGED <<collaborations, datasets, consents, seed, env, auth, jobs, events,
                   auditLog, artifacts, hist, req>>

\* The seed script's job is read, started and cancelled while X joins and
\* leaves the collaboration.
NextScope ==
    \/ seedJob
    \/ AddCollaborationParticipant
    \/ DeleteCollaborationParticipant
    \/ \E p \in ProcsP :
          \/ StartJobFind(p)
          \/ StartJobTransition(p)
          \/ StartJobStartedEvent(p)
          \/ StartJobAudit(p)
          \/ StartJobRunAdapter(p)
          \/ startJobCatch(p)
          \/ cancelJob(p)
          \/ GetJobById(p)

SpecScope == Init /\ [][NextScope]_vars

\* ------------------------------------------------------------ policy tables
\* The policy's tables vary: B may or may not have joined collaboration C,
\* datasets D (of B) and E (of A) may or may not exist, each with or without
\* a consent. The owner A holds the participant row createCollaboration
\* gives it.
OwnerRow == [collaborationId |-> "C", orgId |-> "A", role |-> "BOTH"]
MemberRows == {[collaborationId |-> "C", orgId |-> "B", role |-> "CONSUMER"]}
DatasetRows == {[id |-> "D", orgId |-> "B"], [id |-> "E", orgId |-> "A"]}
ConsentRows == {[id |-> "K", datasetId |-> "D"], [id |-> "L", datasetId |-> "E"]}

\* Callers: the owner, the organization that may have joined, an outsider.
PolicyCallers == {"A", "B", "X"}

\* Bodies accepted by createJobBodySchema: one, two or a repeated dataset;
\* a TEE job; `type` differing from `input.type`; an unknown collaboration.
PolicyBodies ==
    {[collaborationId |-> c, type |-> b.type, input |-> b.input] :
        c \in {"C", "Z"},
        b \in { [type |-> "SMPC",
                 input |-> [type |-> "SMPC", spec |-> SmpcSpec("COUNT", <<"D">>)]],
                [type |-> "SMPC",
                 input |-> [type |-> "SMPC", spec |-> SmpcSpec("SUM", <<"D", "E">>)]],
                [type |-> "SMPC",
                 input |-> [type |-> "SMPC", spec |-> SmpcSpec("AVG", <<"D", "D">>)]],
                [type |-> "TEE", input |-> [type |-> "TEE", spec |-> EmptySpec]],
                [type |-> "SMPC", input |-> [type |-> "TEE", spec |-> EmptySpec]],
                [type |-> "TEE",
                 input |-> [type |-> "SMPC", spec |-> SmpcSpec("COUNT", <<"D">>)]] }}

InitP ==
    /\ collaborations = {[id |-> "C", ownerOrgId |-> "A"]}
    /\ \E ms \in SUBSET MemberRows : participants = {OwnerRow} \cup ms
    /\ datasets \in SUBSET DatasetRows
    /\ consents \in SUBSET {k \in ConsentRows :
                                \E d \in datasets : d.id = k.datasetId}
    /\ jobs = <<>>
    /\ events = <<>>
    /\ auditLog = {}
    /\ artifacts = {}
    /\ writes = <<>>
    /\ adapterRuns = [j \in JobIds |-> 0]
    /\ faults = 0
    /\ seed = [pc |-> "create", jobId |-> 0]
    /\ env = [artifact |-> [root |-> ArtifactRoot, publicBase |-> ArtifactPublicBase]]
    /\ auth = NoAttempts
    /\ req = [p \in Procs |-> IdleReq]

CreateJobAuthorizeAny(p) == CreateJobRequest(p, PolicyCallers, PolicyBodies)

createJobAny(p) ==
    \/ CreateJobAuthorizeAny(p)
    \/ CreateJobPersist(p)
    \/ CreateJobQueuedEvent(p)
    \/ CreateJobAudit(p)

NextP == \E p \in ProcsP : createJobAny(p)

SpecP == InitP /\ [][NextP]_vars

\* ------------------------------------------------- the seeded collaboration
\* Step 8 of prisma/seed.ts (part_015 187-206) creates the demo
\* collaboration of organization A and, in a second call, its participant
\* rows, while the API serves createJob. Steps 1-7 have run: A's dataset E
\* and its consent L exist.

\* prisma.collaboration.create (part_015 191-197)
SeedCollaborationCreate ==
    /\ seed.pc = "collab"
    /\ collaborations = {}
    /\ collaborations' = {[id |-> "C", ownerOrgId |-> "A"]}
    /\ seed' = [seed EXCEPT !.pc = "participants"]
    /\ UNCHANGED <<participants, datasets, consents, env, auth, jobs, events, auditLog,
                   artifacts, hist, req>>

\* prisma.collaborationParticipant.createMany with skipDuplicates (part_015
\* 200-206): both rows name (C, A), the unique index keeps the first.
SeedParticipantsCreateMany ==
    /\ seed.pc = "participants"
    /\ participants' = participants \cup
           {[collaborationId |-> "C", orgId |-> "A", role |-> "PROVIDER"]}
    /\ seed' = [seed EXCEPT !.pc = "create"]
    /\ UNCHANGED <<collaborations, datasets, consents, env, auth, jobs, events, auditLog,
                   artifacts, hist, req>>

seedCollaboration ==
    \/ SeedCollaborationCreate
    \/ SeedParticipantsCreateMany

InitOwner ==
    /\ collaborations = {}
    /\ participants = {}
    /\ datasets = {[id |-> "E", orgId |-> "A"]}
    /\ consents = {[id |-> "L", datasetId |-> "E"]}
    /\ jobs = <<>>
    /\ events = <<>>
    /\ auditLog = {}
    /\ artifacts = {}
    /\ writes = <<>>
    /\ adapterRuns = [j \in JobIds |-> 0]
    /\ faults = 0
    /\ seed = [pc |-> "collab", jobId |-> 0]
    /\ env = [artifact |-> [root |-> ArtifactRoot, publicBase |-> ArtifactPublicBase]]
    /\ auth = NoAttempts
    /\ req = [p \in Procs |-> IdleReq]

\* Bodies naming the seeded collaboration: over A's dataset E, over E and a
\* dataset that does not exist, and a TEE job.
OwnerBodies ==
    { [collaborationId |-> "C", type |-> "SMPC",
       input |-> [type |-> "SMPC", spec |-> SmpcSpec("COUNT", <<"E">>)]],
      [collaborationId |-> "C", type |-> "SMPC",
       input |-> [type |-> "SMPC", spec |-> SmpcSpec("SUM", <<"D", "E">>)]],
      [collaborationId |-> "C", type |-> "TEE",
       input |-> [type |-> "TEE", spec |-> EmptySpec]] }

CreateJobAuthorizeOwner(p) == CreateJobRequest(p, CallerOrgs, OwnerBodies)

createJobOwner(p) ==
    \/ CreateJobAuthorizeOwner(p)
    \/ CreateJobPersist(p)
    \/ CreateJobQueuedEvent(p)
    \/ CreateJobAudit(p)

NextOwner ==
    \/ seedCollaboration
    \/ \E p \in ProcsF : createJobOwner(p)

SpecOwner == InitOwner /\ [][NextOwner]_vars

\* ---------------------------------------------------------------- listJobs
\* The store listJobs reads: collaboration C (owner A, participant B) and
\* collaboration Z (owner B alone), and up to MaxJobsL jobs, each of either
\* collaboration, created one after the other (createdAt is the row's
\* position).
ListCollaborations ==
    {[id |-> "C", ownerOrgId |-> "A"], [id |-> "Z", ownerOrgId |-> "B"]}
ListParticipants ==
    {[collaborationId |-> "C", orgId |-> "A", role |-> "BOTH"],
     [collaborationId |-> "C", orgId |-> "B", role |-> "CONSUMER"],
     [collaborationId |-> "Z", orgId |-> "B", role |-> "BOTH"]}
\* The (collaboration, type, status) of a stored job.
ListRowKinds ==
    {"C", "Z"} \X {<<"SMPC", "SUCCEEDED">>, <<"SMPC", "FAILED">>,
                   <<"TEE", "SUCCEEDED">>}
ListRow(id, kind) ==
    [id |-> id, collaborationId |-> kind[1], type |-> kind[2][1],
     status |-> kind[2][2],
     input |-> [type |-> kind[2][1],
                spec |-> IF kind[2][1] = "SMPC" THEN SmpcSpec("COUNT", <<"D">>)
                         ELSE EmptySpec],
     artifactUri |-> NoUri, result |-> NULL,
     scopeAtCreate |-> IF kind[1] = "C" THEN {"A", "B"} ELSE {"B"}]
\* The id column: a string, here two characters per job.
IdChars == <<"a", "b", "c", "d", "e", "f">>
JobUuid(id) == <<IdChars[id], IdChars[id + 1]>>

\* Queries accepted by listJobsQuerySchema (schemas/jobs.ts 46-55).
ListCallers == {"A", "B"}
ListQueries ==
    [type : {NULL, "TEE"}, status : {NULL, "SUCCEEDED", "FAILED"},
     collaborationId : {NULL, "Z"},
     createdAfter : {0, 2}, createdBefore : {0, 1},
     q : {<<>>, <<"b">>}, page : {1, 2}, pageSize : {1, 2}]

InitL ==
    /\ collaborations = ListCollaborations
    /\ participants = ListParticipants
    /\ datasets = {[id |-> "D", orgId |-> "B"]}
    /\ consents = {[id |-> "K", datasetId |-> "D"]}
    /\ \E n \in 0..MaxJobsL : \E kinds \in [1..n -> ListRowKinds] :
          jobs = [i \in 1..n |-> ListRow(i, kinds[i])]
    /\ events = <<>>
    /\ auditLog = {}
    /\ artifacts = {}
    /\ writes = <<>>
    /\ adapterRuns = [j \in JobIds |-> 0]
    /\ faults = 0
    /\ seed = [pc |-> "create", jobId |-> 0]
    /\ env = [artifact |-> [root |-> ArtifactRoot, publicBase |-> ArtifactPublicBase]]
    /\ auth = NoAttempts
    /\ req = [p \in Procs |-> IdleReq]

\* Prisma `contains` on the id column.
IdContains(id, q) ==
    \E k \in 0..(Len(id) - Len(q)) : SubSeq(id, k + 1, k + Len(q)) = q

\* The where clause listJobs builds (274-293), without the collaboration
\* scope.
ListWhereAny(orgId, query) ==
    {i \in DOMAIN jobs :
        /\ query.type # NULL => jobs[i].type = query.type
        /\ query.status # NULL => jobs[i].status = query.status
        /\ query.collaborationId # NULL =>
               jobs[i].collaborationId = query.collaborationId
        /\ query.createdAfter # 0 => i >= query.createdAfter
        /\ query.createdBefore # 0 => i <= query.createdBefore
        /\ query.q # <<>> => IdContains(JobUuid(jobs[i].id), query.q)}

\* The where clause listJobs builds (274-293): the collaboration scope and
\* every supplied filter.
ListWhere(orgId, query) ==
    {i \in DOMAIN jobs :
        /\ \E c \in collaborations :
              c.id = jobs[i].collaborationId /\ CollabInScope(c, orgId)
        /\ query.type # NULL => jobs[i].type = query.type
        /\ query.status # NULL => jobs[i].status = query.status
        /\ query.collaborationId # NULL =>
               jobs[i].collaborationId = query.collaborationId
        /\ query.createdAfter # 0 => i >= query.createdAfter
        /\ query.createdBefore # 0 => i <= query.createdBefore
        /\ query.q # <<>> => IdContains(JobUuid(jobs[i].id), query.q)}

\* orderBy createdAt desc
RECURSIVE Descending(_)
Descending(S) ==
    IF S = {} THEN <<>>
    ELSE LET m == CHOOSE x \in S : \A y \in S : y <= x
         IN <<m>> \o Descending(S \ {m})

\* skip (page - 1) * pageSize, take pageSize
ListPage(rows, page, pageSize) ==
    LET from == (page - 1) * pageSize + 1
        to == IF page * pageSize < Len(rows) THEN page * pageSize ELSE Len(rows)
    IN SubSeq(rows, from, to)

\* GET /v1/jobs: prisma.job.count and prisma.job.findMany on one where
\* clause (295-312); no writer runs beside them here.
ListJobsQuery(p) ==
    /\ Fresh(p)
    /\ \E org \in ListCallers, query \in ListQueries :
        LET found == ListWhere(org, query)
            total == Cardinality(found)
        IN
        /\ req' = [req EXCEPT ![p] = ListReq(org, query,
                      [jobs |-> ListPage(Descending(found), query.page,
                                         query.pageSize),
                       total |-> total,
                       totalPages |-> (total + query.pageSize - 1)
                                          \div query.pageSize])]
        /\ UNCHANGED <<world, jobs, events, auditLog, artifacts, hist>>

\* writeAudit JOB_LIST and the 200 response (314-331)
ListJobsAudit(p) ==
    /\ At(p, "list", "audit")
    /\ auditLog' = writeAudit(p, req[p].org, "JOB_LIST", 0)
    /\ req' = Finish(p, 200, "OK")
    /\ UNCHANGED <<world, jobs, events, artifacts, hist>>

listJobs(p) ==
    \/ ListJobsQuery(p)
    \/ ListJobsAudit(p)

\* One listJobs request over the store.
NextL == listJobs(1)

SpecL == InitL /\ [][NextL]_vars

\* ---------------------------------------------------------- artifact store
\* Configurations: ARTIFACT_ROOT resolved to an absolute path, and
\* ARTIFACT_PUBLIC_BASE unset or the prefix of a public URL.
ArtifactRoots == {<<"/", "artifacts">>, <<"/", "srv", "/", "store">>}
ArtifactPublicBases ==
    {<<>>,
     <<"http", ":", "/", "/", "localhost", ":", "4000", "/", "artifacts">>,
     <<"https", ":", "/", "/", "cdn.example.com", "/", "files">>}

\* Filenames handed to writeJsonArtifact: the adapter's, one that climbs to
\* the directory of job 2, one that ends in a parent segment, an absolute
\* one.
WriteFilenames ==
    {ResultFilename,
     <<"..", "/", "2", "/", "result.json">>,
     <<"out", "/", "..">>,
     <<"/", "etc", "/", "passwd">>}

\* Status and artifactUri of the stored job: as createJob leaves it, as
\* startJob leaves it, as the seed script leaves it, and FAILED.
StoredArtifactStates ==
    {<<"PENDING", NoUri>>, <<"FAILED", NoUri>>,
     <<"SUCCEEDED", buildArtifactUri(1, ResultFilename)>>,
     <<"SUCCEEDED", SeedArtifactUri(1)>>}

InitA ==
    /\ collaborations = {[id |-> "C", ownerOrgId |-> "A"]}
    /\ participants = {[collaborationId |-> "C", orgId |-> "A", role |-> "BOTH"],
                       [collaborationId |-> "C", orgId |-> "B", role |-> "CONSUMER"]}
    /\ datasets = {[id |-> "D", orgId |-> "B"]}
    /\ consents = {[id |-> "K", datasetId |-> "D"]}
    /\ \E root \in ArtifactRoots, base \in ArtifactPublicBases :
          env = [artifact |-> [root |-> root, publicBase |-> base]]
    /\ auth = NoAttempts
    /\ \E stored \in StoredArtifactStates :
          jobs = <<[id |-> 1, collaborationId |-> "C", type |-> "SMPC",
                    status |-> stored[1],
                    input |-> [type |-> "SMPC", spec |-> SmpcSpec("COUNT", <<"D">>)],
                    artifactUri |-> stored[2],
                    result |-> IF stored[1] = "SUCCEEDED" THEN StubResult("COUNT")
                               ELSE NULL,
                    scopeAtCreate |-> {"A", "B"}]>>
    /\ artifacts \in {{}, {getArtifactPath(1, ResultFilename)}}
    /\ events = <<>>
    /\ auditLog = {}
    /\ writes = <<>>
    /\ adapterRuns = [j \in JobIds |-> 0]
    /\ faults = 0
    /\ seed = [pc |-> "create", jobId |-> 0]
    /\ req = [p \in Procs |-> IdleReq]

\* path.dirname of an absolute path.
DirName(path) ==
    LET segments == Segments(path) IN
    IF Len(segments) <= 1 THEN <<"/">>
    ELSE Slashed(SubSeq(segments, 1, Len(segments) - 1))

\* writeJsonArtifact (artifacts.ts 27-44): the job's directory is ensured,
\* the file path is joined from it and the filename as given, the file is
\* written and the URI is returned. fs.writeFile throws (`reason`) when
\* the path is the directory itself, and may throw when the file's
\* directory is another than the one ensured, which need not exist.
WriteJsonArtifact(p) ==
    /\ Fresh(p)
    /\ \E jobId \in JobIds, filename \in WriteFilenames, written \in BOOLEAN :
        LET dirPath == PathJoin(<<env.artifact.root, JobIdText(jobId)>>)
            filePath == PathJoin(<<dirPath, filename>>)
        IN
        /\ filePath = dirPath => ~written
        /\ DirName(filePath) = dirPath => written
        /\ artifacts' = IF written THEN artifacts \cup {filePath} ELSE artifacts
        /\ req' = [req EXCEPT ![p] =
              [ArtifactReq("write", NULL, jobId) EXCEPT
                  !.filename = filename, !.path = filePath,
                  !.uri = IF written THEN buildArtifactUri(jobId, filename)
                          ELSE NoUri,
                  !.reason = IF written THEN NULL
                             ELSE IF filePath = dirPath THEN "EISDIR"
                             ELSE "ENOENT",
                  !.pc = "done"]]
    /\ UNCHANGED <<world, jobs, events, auditLog, hist>>

\* The filename a consumer takes from the job's URI (69-73, 166-170).
ConsumedFilename(uri) ==
    IF extractFilenameFromUri(uri) # <<>> THEN extractFilenameFromUri(uri)
    ELSE ResultFilename

\* GET /v1/jobs/:id/artifact: the scoped read and the checks up to the
\* filename check (artifacts.controller.ts 33-81).
DownloadFind(p) ==
    /\ Fresh(p)
    /\ \E org \in CallerOrgs, jobId \in JobIds :
        LET r == ArtifactReq("download", org, jobId)
            filename == ConsumedFilename(jobs[jobId].artifactUri)
        IN
        req' = [req EXCEPT ![p] =
            IF ~ScopedJob(jobId, org)
                THEN [r EXCEPT !.pc = "done", !.resp = Resp(404, "JOB_NOT_FOUND")]
            ELSE IF jobs[jobId].artifactUri = NoUri
                THEN [r EXCEPT !.pc = "done", !.resp = Resp(404, "ARTIFACT_NOT_FOUND")]
            ELSE IF jobs[jobId].status \notin {"SUCCEEDED", "FAILED"}
                THEN [r EXCEPT !.pc = "done", !.resp = Resp(409, "INVALID_STATE")]
            ELSE IF IsTraversal(filename)
                THEN [r EXCEPT !.pc = "done", !.filename = filename,
                               !.resp = Resp(400, "INVALID_FILENAME")]
            ELSE [r EXCEPT !.pc = "exists", !.filename = filename]]
    /\ UNCHANGED <<world, jobs, events, auditLog, artifacts, hist>>

\* checkArtifactExists (84-90): the first store path resolved.
DownloadExists(p) ==
    /\ At(p, "download", "exists")
    /\ LET filePath == getArtifactPath(req[p].jobId, req[p].filename) IN
       req' = [req EXCEPT ![p].path = filePath,
                          ![p].pc = IF filePath \in artifacts THEN "stream"
                                    ELSE "done",
                          ![p].resp = IF filePath \in artifacts THEN NoResp
                                      ELSE Resp(404, "ARTIFACT_NOT_FOUND")]
    /\ UNCHANGED <<world, jobs, events, auditLog, artifacts, hist>>

\* getArtifactStats, the headers and the piped stream (93-118)
DownloadStream(p) ==
    /\ At(p, "download", "stream")
    /\ req' = [req EXCEPT ![p].pc = "audit", ![p].resp = Resp(200, "OK")]
    /\ UNCHANGED <<world, jobs, events, auditLog, artifacts, hist>>

\* writeAudit ARTIFACT_DOWNLOAD (121-126)
DownloadAudit(p) ==
    /\ At(p, "download", "audit")
    /\ auditLog' = writeAudit(p, req[p].org, "ARTIFACT_DOWNLOAD", req[p].jobId)
    /\ req' = Goto(p, "done")
    /\ UNCHANGED <<world, jobs, events, artifacts, hist>>

downloadJobArtifact(p) ==
    \/ DownloadFind(p)
    \/ DownloadExists(p)
    \/ DownloadStream(p)
    \/ DownloadAudit(p)

\* GET /v1/jobs/:id/artifact/info: the scoped read (141-163)
InfoFind(p) ==
    /\ Fresh(p)
    /\ \E org \in CallerOrgs, jobId \in JobIds :
        LET r == ArtifactReq("info", org, jobId) IN
        req' = [req EXCEPT ![p] =
            IF ~ScopedJob(jobId, org)
                THEN [r EXCEPT !.pc = "done", !.resp = Resp(404, "JOB_NOT_FOUND")]
            ELSE [r EXCEPT !.pc = "stats",
                           !.filename = ConsumedFilename(jobs[jobId].artifactUri)]]
    /\ UNCHANGED <<world, jobs, events, auditLog, artifacts, hist>>

\* getArtifactStats on the filename as extracted, and the 200 response
\* whether or not the file exists (172-197).
InfoStats(p) ==
    /\ At(p, "info", "stats")
    /\ req' = [req EXCEPT ![p].path = getArtifactPath(req[p].jobId, req[p].filename),
                          ![p].pc = "done", ![p].resp = Resp(200, "OK")]
    /\ UNCHANGED <<world, jobs, events, auditLog, artifacts, hist>>

getArtifactInfo(p) ==
    \/ InfoFind(p)
    \/ InfoStats(p)

NextA ==
    \E p \in ProcsP :
        \/ WriteJsonArtifact(p)
        \/ downloadJobArtifact(p)
        \/ getArtifactInfo(p)

SpecA == InitA /\ [][NextA]_vars

\* ----------------------------------------------------------- login throttle
\* POST /v1/auth/login (part_001 325-455). The two maps live in the memory
\* of the server process; every function reads the clock with Date.now().
FAILED_LOGIN_WINDOW_MS == 5 * 60 * 1000
FAILED_LOGIN_MAX_ATTEMPTS == 5
FAILED_LOGIN_BLOCK_MS == 60 * 1000

\* table User: one account; verifyPassword accepts its password alone.
Users == {[email |-> "u@x.org", password |-> "correct-horse"]}
\* Requests: the client address with a body accepted by loginSchema (an
\* email, in either case, and a password of eight characters or more).
LoginInputs ==
    { [ip |-> "10.0.0.1", email |-> "U@x.org", password |-> "wrong-horse"],
      [ip |-> "10.0.0.1", email |-> "v@x.org", password |-> "wrong-horse"],
      [ip |-> "10.0.0.2", email |-> "u@x.org", password |-> "correct-horse"] }
\* email.toLowerCase()
toLowerCase(email) == IF email = "U@x.org" THEN "u@x.org" ELSE email
verifyPassword(user, password) == user.password = password

\* Steps by which the clock is found advanced.
Deltas == {FAILED_LOGIN_BLOCK_MS - 1, FAILED_LOGIN_BLOCK_MS,
           FAILED_LOGIN_WINDOW_MS, FAILED_LOGIN_WINDOW_MS + 1}

\* getThrottleState (170-185): the entry, NoEntry when there is none or
\* when it is older than the window ...
getThrottleState(key, store, now) ==
    IF store[key] = NoEntry THEN NoEntry
    ELSE IF now - store[key].lastAttempt > FAILED_LOGIN_WINDOW_MS THEN NoEntry
    ELSE store[key]
\* ... and the map it leaves: an entry older than the window is deleted.
Swept(key, store, now) ==
    IF store[key] # NoEntry /\ now - store[key].lastAttempt > FAILED_LOGIN_WINDOW_MS
    THEN [store EXCEPT ![key] = NoEntry]
    ELSE store

\* isThrottled (187-192)
isThrottled(key, store, now) ==
    LET entry == getThrottleState(key, store, now) IN
    /\ entry # NoEntry
    /\ entry.blockedUntil # 0
    /\ now < entry.blockedUntil

\* registerFailedAttempt that blocks from the attempt after the fifth.
registerFailedAttemptLate(key, store, now) ==
    LET existing == getThrottleState(key, store, now) IN
    IF existing = NoEntry
    THEN [store EXCEPT ![key] = [count |-> 1, lastAttempt |-> now, blockedUntil |-> 0]]
    ELSE [store EXCEPT ![key] =
            [count |-> existing.count + 1, lastAttempt |-> now,
             blockedUntil |-> IF existing.count + 1 > FAILED_LOGIN_MAX_ATTEMPTS
                              THEN now + FAILED_LOGIN_BLOCK_MS
                              ELSE existing.blockedUntil]]

\* registerFailedAttempt (194-217): the map after the call.
registerFailedAttempt(key, store, now) ==
    LET existing == getThrottleState(key, store, now) IN
    IF existing = NoEntry
    THEN [store EXCEPT ![key] = [count |-> 1, lastAttempt |-> now, blockedUntil |-> 0]]
    ELSE [store EXCEPT ![key] =
            [count |-> existing.count + 1, lastAttempt |-> now,
             blockedUntil |-> IF existing.count + 1 >= FAILED_LOGIN_MAX_ATTEMPTS
                              THEN now + FAILED_LOGIN_BLOCK_MS
                              ELSE existing.blockedUntil]]

\* clearFailedAttempts (219-221)
clearFailedAttempts(key, store) == [store EXCEPT ![key] = NoEntry]

\* History kept beside the maps: a failure lengthens the key's streak, or
\* starts one when the streak's latest failure is older than the window.
StreakAfterFailure(key, streak, now) ==
    [streak EXCEPT ![key] =
        [n |-> IF streak[key].n > 0
                    /\ now - streak[key].last <= FAILED_LOGIN_WINDOW_MS
               THEN streak[key].n + 1 ELSE 1,
         last |-> now]]
StreakAfterSuccess(key, streak) == [streak EXCEPT ![key] = NoStreak]

\* The locals of a login request: ip from getClientIp, the body, the
\* normalised email, the user row read.
LoginReq(ip, email, password) ==
    [kind |-> "login", pc |-> "find", org |-> NULL, jobId |-> 0, ip |-> ip,
     email |-> email, emailNorm |-> toLowerCase(email), password |-> password,
     resp |-> NoResp]

\* Both keys of the request register a failed attempt (358-360, 385-387).
FailedLogin(p) ==
    [auth EXCEPT
        !.failedLoginByIp = registerFailedAttempt(req[p].ip, @, auth.now),
        !.failedLoginByEmail = registerFailedAttempt(req[p].emailNorm, @, auth.now),
        !.streakByIp = StreakAfterFailure(req[p].ip, @, auth.now),
        !.streakByEmail = StreakAfterFailure(req[p].emailNorm, @, auth.now)]

\* The handler up to its first await (325-353): the throttle check of both
\* keys, which answers 429 LOGIN_THROTTLED when either is blocked. A slot
\* serves its next request once the previous one was answered.
LoginCheck(p) ==
    /\ req[p].pc \in {"idle", "done"}
    /\ auth.served < MaxLogins
    /\ \E in \in LoginInputs :
        LET r == LoginReq(in.ip, in.email, in.password)
            ip == in.ip
            ipThrottled == isThrottled(ip, auth.failedLoginByIp, auth.now)
            emailThrottled ==
                isThrottled(r.emailNorm, auth.failedLoginByEmail, auth.now)
        IN
        /\ req' = [req EXCEPT ![p] =
                IF ipThrottled \/ emailThrottled
                    THEN [r EXCEPT !.pc = "done",
                                   !.resp = Resp(429, "LOGIN_THROTTLED")]
                ELSE r]
        /\ auth' = [auth EXCEPT
                !.served = @ + 1,
                !.failedLoginByIp = Swept(ip, @, auth.now),
                !.failedLoginByEmail = Swept(r.emailNorm, @, auth.now)]
    /\ UNCHANGED <<tables, seed, env, jobs, events, auditLog, artifacts, hist>>

\* prisma.user.findUnique (355) and the unknown-user branch (357-372)
LoginFind(p) ==
    /\ At(p, "login", "find")
    /\ IF \E u \in Users : u.email = req[p].emailNorm
       THEN /\ req' = Goto(p, "verify")
            /\ auth' = auth
       ELSE /\ req' = Goto(p, "delay")
            /\ auth' = FailedLogin(p)
    /\ UNCHANGED <<tables, seed, env, jobs, events, auditLog, artifacts, hist>>

\* verifyPassword (383) and what follows it: the bad-password branch
\* (384-399), or both counters cleared and the 200 response (411-445).
LoginVerify(p) ==
    /\ At(p, "login", "verify")
    /\ LET user == CHOOSE u \in Users : u.email = req[p].emailNorm IN
       IF verifyPassword(user, req[p].password)
       THEN /\ req' = Finish(p, 200, "OK")
            /\ auth' = [auth EXCEPT
                  !.failedLoginByIp = clearFailedAttempts(req[p].ip, @),
                  !.failedLoginByEmail = clearFailedAttempts(req[p].emailNorm, @),
                  !.streakByIp = StreakAfterSuccess(req[p].ip, @),
                  !.streakByEmail = StreakAfterSuccess(req[p].emailNorm, @)]
       ELSE /\ req' = Goto(p, "delay")
            /\ auth' = FailedLogin(p)
    /\ UNCHANGED <<tables, seed, env, jobs, events, auditLog, artifacts, hist>>

\* after delay(FAILED_LOGIN_DELAY_MS): 401 INVALID_CREDENTIALS (374-381,
\* 401-408)
LoginDelay(p) ==
    /\ At(p, "login", "delay")
    /\ req' = Finish(p, 401, "INVALID_CREDENTIALS")
    /\ UNCHANGED <<world, jobs, events, auditLog, artifacts, hist>>

login(p) ==
    \/ LoginCheck(p)
    \/ LoginFind(p)
    \/ LoginVerify(p)
    \/ LoginDelay(p)

\* Time passes: Date.now() answers a later time from here on.
Tick ==
    /\ auth.ticks < MaxTicks
    /\ \E d \in Deltas : auth' = [auth EXCEPT !.now = @ + d, !.ticks = @ + 1]
    /\ UNCHANGED <<tables, seed, env, jobs, events, auditLog, artifacts, hist, req>>

NextLogin ==
    \/ Tick
    \/ \E p \in ProcsF : login(p)

SpecLogin == Init /\ [][NextLogin]_vars

\* ------------------------------------------------------------- observations
\* No request is between its first and its last step.
Quiescent == \A p \in Procs : req[p].pc \in {"idle", "done"}

\* A job's status-bearing events (non-null newStatus), in creation order.
StatusEvents(j) ==
    SelectSeq(events, LAMBDA e : e.jobId = j /\ e.newStatus # NULL)

\* The status writes applied to a job's row, in the order applied.
JobWrites(j) == SelectSeq(writes, LAMBDA w : w.jobId = j)

\* The transitions of the job state machine (spec 4.3).
ValidTransitions ==
    { <<"PENDING", "RUNNING">>, <<"RUNNING", "SUCCEEDED">>,
      <<"RUNNING", "FAILED">>, <<"PENDING", "CANCELED">>,
      <<"RUNNING", "CANCELED">> }

\* The request applied a status write / appended a status-bearing event.
Wrote(p) == \E i \in DOMAIN writes : writes[i].by = p
AppendedStatusEvent(p) ==
    \E i \in DOMAIN events : events[i].by = p /\ events[i].newStatus # NULL

\* ------------------------------------------------------------------ claims

\* C1: terminal states are absorbing: once a job's stored status is
\* SUCCEEDED, FAILED or CANCELED, no step of any request changes it.
C1_TerminalAbsorbing ==
    [][\A j \in DOMAIN jobs :
          jobs[j].status \in TerminalStatus
              => jobs'[j].status = jobs[j].status]_vars

\* C2: a startJob whose job was CANCELED when its adapter returned leaves
\* the job alone: it writes no SUCCEEDED/FAILED status and appends no
\* RUNNING->SUCCEEDED or RUNNING->FAILED event.
C2_CancelBypassesAdapter ==
    \A p \in Procs :
        (req[p].kind = "start" /\ req[p].atReturn = "CANCELED")
            => /\ ~\E i \in DOMAIN writes :
                     writes[i].by = p /\ writes[i].new \in {"SUCCEEDED", "FAILED"}
               /\ ~\E i \in DOMAIN events :
                     events[i].by = p /\ events[i].newStatus \in {"SUCCEEDED", "FAILED"}

\* C3: a COMPLETED or FAILED webhook that finds the job already terminal is
\* a no-op: it writes no status and appends no status-bearing event.
C3_TerminalWebhookNoOp ==
    \A p \in Procs :
        (/\ req[p].kind = "webhook"
         /\ req[p].event \in {"COMPLETED", "FAILED"}
         /\ req[p].job.status \in TerminalStatus)
            => ~Wrote(p) /\ ~AppendedStatusEvent(p)

\* The cancelJob requests that found job j, and the requests of other kinds
\* that changed or may change j's status.
CancelsOn(j) ==
    {p \in Procs : req[p].kind = "cancel" /\ req[p].jobId = j
                   /\ req[p].resp.status # 404}
OthersOn(j) ==
    {p \in Procs : req[p].kind \in {"start", "webhook"} /\ req[p].jobId = j}

\* C4: when exactly two cancelJob requests found the same job while it was
\* PENDING and no start or webhook names it, then once both have answered
\* one answered 200 and the other 409 INVALID_STATE, the job is CANCELED
\* and exactly one event has newStatus CANCELED.
C4_TwoCancelsOneWinner ==
    \A j \in DOMAIN jobs :
        (/\ Cardinality(CancelsOn(j)) = 2
         /\ OthersOn(j) = {}
         /\ \A p \in CancelsOn(j) : req[p].pc = "done")
            => /\ \E p, q \in CancelsOn(j) :
                     /\ p # q
                     /\ req[p].resp = Resp(200, "OK")
                     /\ req[q].resp = Resp(409, "INVALID_STATE")
               /\ jobs[j].status = "CANCELED"
               /\ Cardinality({i \in DOMAIN events :
                      events[i].jobId = j /\ events[i].newStatus = "CANCELED"}) = 1

\* C4 witness: two cancels that both read PENDING have answered 200 and 409.
C4_Witness ==
    \E p, q \in Procs :
        /\ p # q
        /\ CancelsOn(1) = {p, q} /\ OthersOn(1) = {}
        /\ req[p].job.status = "PENDING" /\ req[q].job.status = "PENDING"
        /\ req[p].resp = Resp(200, "OK")
        /\ req[q].resp = Resp(409, "INVALID_STATE")

\* C5: per job, at most one startJob wins PENDING->RUNNING: the adapter runs
\* at most once and at most one STARTED event exists.
C5_AtMostOneStart ==
    \A j \in JobIds :
        /\ adapterRuns[j] <= 1
        /\ Cardinality({i \in DOMAIN events :
               events[i].jobId = j /\ events[i].type = "STARTED"}) <= 1
        /\ Cardinality({i \in DOMAIN writes :
               writes[i].jobId = j /\ writes[i].new = "RUNNING"}) <= 1

\* C5 witness: two startJob requests read PENDING; one ran the adapter and
\* the other lost the conditional update.
C5_Witness ==
    \E p, q \in Procs :
        /\ p # q
        /\ req[p].kind = "start" /\ req[q].kind = "start"
        /\ req[p].jobId = req[q].jobId
        /\ req[p].job.status = "PENDING" /\ req[q].job.status = "PENDING"
        /\ Wrote(p) /\ adapterRuns[req[p].jobId] = 1
        /\ req[q].pc = "done" /\ ~Wrote(q)

\* C6: a startJob that found its job but did not win PENDING->RUNNING
\* answers a 409 INVALID_STATE / INVALID_TRANSITION conflict and writes
\* nothing.
C6_StartLoserGets409 ==
    \A p \in Procs :
        (/\ req[p].kind = "start" /\ req[p].pc = "done"
         /\ req[p].resp.status # 404
         /\ ~\E i \in DOMAIN writes : writes[i].by = p /\ writes[i].new = "RUNNING")
            => /\ req[p].resp.status = 409
               /\ req[p].resp.code \in {"INVALID_STATE", "INVALID_TRANSITION"}
               /\ ~Wrote(p)
               /\ ~\E i \in DOMAIN events : events[i].by = p

\* C7: with no request in flight, a job's stored status is the newStatus of
\* its latest status-bearing event, and PENDING when it has none.
C7_StatusMatchesLastEvent ==
    Quiescent =>
        \A j \in DOMAIN jobs :
            LET se == StatusEvents(j) IN
            jobs[j].status = IF se = <<>> THEN "PENDING" ELSE se[Len(se)].newStatus

\* C8: no recorded event has a terminal oldStatus.
C8_NoEventFromTerminal ==
    \A i \in DOMAIN events : events[i].oldStatus \notin TerminalStatus

\* C9: a job's status-bearing events, in creation order, are a path of the
\* state machine from PENDING: the first leaves PENDING, each later one
\* leaves the status the previous one entered, and each is a valid
\* transition.
C9_EventsFormValidPath ==
    \A j \in DOMAIN jobs :
        LET se == StatusEvents(j) IN
        \A i \in DOMAIN se :
            /\ <<se[i].oldStatus, se[i].newStatus>> \in ValidTransitions
            /\ se[i].oldStatus = IF i = 1 THEN "PENDING" ELSE se[i - 1].newStatus

\* The (request, old, new) triples of a sequence of events or of writes.
EventTriples(se) ==
    [i \in DOMAIN se |-> <<se[i].by, se[i].oldStatus, se[i].newStatus>>]
WriteTriples(ws) ==
    [i \in DOMAIN ws |-> <<ws[i].by, ws[i].old, ws[i].new>>]

\* C10: the status-bearing events of a job are, in the same order, the
\* status writes applied to it whose event has been recorded: each event
\* carries the status the row really had before the write and the status
\* written.
C10_EventsReflectWrites ==
    \A j \in DOMAIN jobs :
        LET se == StatusEvents(j)
            recorded == {<<se[i].by, se[i].newStatus>> : i \in DOMAIN se}
            ws == SelectSeq(JobWrites(j), LAMBDA w : <<w.by, w.new>> \in recorded)
        IN EventTriples(se) = WriteTriples(ws)

\* C11: a status change and its event are one unit: once a request has
\* ended, whether normally or on a failed store call, every status write it
\* applied has exactly one event of that request with the written status.
C11_TransitionEventAtomic ==
    \A p \in Procs :
        req[p].pc = "done" =>
            \A i \in DOMAIN writes :
                writes[i].by = p =>
                    Cardinality({k \in DOMAIN events :
                        /\ events[k].by = p
                        /\ events[k].jobId = writes[i].jobId
                        /\ events[k].newStatus = writes[i].new}) = 1

\* The requests that found job j (or created it), and a job's events as
\* <<type, oldStatus, newStatus>> in creation order.
OnJob(j) ==
    {q \in Procs : /\ req[q].kind # "none" /\ req[q].jobId = j
                    /\ req[q].resp.status # 404}
JobEvents(j) ==
    LET es == SelectSeq(events, LAMBDA e : e.jobId = j) IN
    [i \in DOMAIN es |-> <<es[i].type, es[i].oldStatus, es[i].newStatus>>]

\* A createJob that answered 201 for an SMPC COUNT specification.
CreatedCount(c) ==
    /\ req[c].kind = "create" /\ req[c].resp.status = 201
    /\ req[c].body.type = "SMPC" /\ req[c].body.input.type = "SMPC"
    /\ req[c].body.input.spec.operation = "COUNT"

\* A startJob that read job j after its createJob had answered and has
\* itself answered, no other request having found the job.
StartedAlone(c, p) ==
    /\ req[p].kind = "start" /\ req[p].following /\ req[p].pc = "done"
    /\ OnJob(req[c].jobId) = {c, p}

\* C12: happy path. After an admitted createJob for an SMPC COUNT spec and
\* no other request, the job is PENDING with one QUEUED event; after a
\* following startJob and no other request, startJob answered 200, the job
\* is SUCCEEDED with result {total:1337} and an artifactUri, and its events
\* are QUEUED, STARTED (PENDING->RUNNING), COMPLETED (RUNNING->SUCCEEDED).
C12_HappyPath ==
    \A c \in Procs :
        CreatedCount(c) =>
            LET j == req[c].jobId IN
            /\ OnJob(j) = {c} =>
                   /\ jobs[j].status = "PENDING"
                   /\ JobEvents(j) = << <<"QUEUED", NULL, NULL>> >>
            /\ \A p \in Procs :
                   StartedAlone(c, p) =>
                       /\ req[p].resp = Resp(200, "OK")
                       /\ jobs[j].status = "SUCCEEDED"
                       /\ jobs[j].result = "{total:1337}"
                       /\ jobs[j].artifactUri # NoUri
                       /\ JobEvents(j) = << <<"QUEUED", NULL, NULL>>,
                                            <<"STARTED", "PENDING", "RUNNING">>,
                                            <<"COMPLETED", "RUNNING", "SUCCEEDED">> >>

\* C12 witness: createJob then startJob have both answered on one job.
C12_Witness ==
    \E c, p \in Procs :
        /\ CreatedCount(c) /\ StartedAlone(c, p)
        /\ jobs[req[c].jobId].status = "SUCCEEDED"

\* runSMPC threw in request p: its catch block holds the adapter's message.
AdapterThrew(p) ==
    /\ req[p].kind = "start"
    /\ req[p].reason # NULL
    /\ req[p].reason = assertValidSmpcRunInput(req[p].job.input.spec)

\* No request but p found job j, and nothing but p wrote its status or its
\* events after the row was stored.
OnlyRequestOn(p, j) ==
    /\ OnJob(j) \subseteq {p} \cup {c \in Procs : req[c].kind = "create"}
    /\ \A i \in DOMAIN writes : writes[i].jobId = j => writes[i].by = p
    /\ \A k \in DOMAIN events :
          events[k].jobId = j /\ events[k].type # "QUEUED" => events[k].by = p

\* C13: when the adapter throws in startJob and no other request touches the
\* job, then once startJob has answered the job is FAILED, exactly one
\* RUNNING->FAILED event exists and carries the adapter's message, the
\* adapter ran once, and the answer is 200.
C13_AdapterFailure ==
    \A p \in Procs :
        LET j == req[p].jobId
            failed == {k \in DOMAIN events :
                          /\ events[k].jobId = j
                          /\ events[k].oldStatus = "RUNNING"
                          /\ events[k].newStatus = "FAILED"}
        IN
        (AdapterThrew(p) /\ req[p].pc = "done" /\ OnlyRequestOn(p, j))
            => /\ jobs[j].status = "FAILED"
               /\ Cardinality(failed) = 1
               /\ \A k \in failed :
                     /\ events[k].type = "FAILED"
                     /\ events[k].data = <<"error", req[p].reason>>
               /\ adapterRuns[j] = 1
               /\ req[p].resp = Resp(200, "OK")

\* C13 witness: a startJob whose adapter threw has answered, alone on its job.
C13_Witness ==
    \E p \in Procs :
        /\ AdapterThrew(p) /\ req[p].pc = "done"
        /\ OnlyRequestOn(p, req[p].jobId)
        /\ req[p].reason = "SMPC spec is required"

\* runSMPC returned a result to request p although writeJsonArtifact threw:
\* nothing was written under the job's directory.
ArtifactWriteFailed(p) ==
    /\ req[p].kind = "start"
    /\ req[p].out.result # NULL
    /\ getArtifactPath(req[p].jobId, ResultFilename) \notin artifacts

\* C14: a failed artifact write is not fatal. The adapter still returns the
\* would-be URI; unless a store call of the request fails as well, the
\* request never writes FAILED and goes on to write SUCCEEDED; the row then
\* holds the result and the non-null URI, and is SUCCEEDED whenever that
\* write is the latest on the job.
C14_ArtifactFailureNonFatal ==
    \A p \in Procs :
        ArtifactWriteFailed(p) =>
            LET j == req[p].jobId
                ws == JobWrites(j)
                wroteSucceeded == \E i \in DOMAIN ws :
                                     ws[i].by = p /\ ws[i].new = "SUCCEEDED"
            IN
            /\ req[p].out.artifactUri # NoUri
            /\ req[p].out.artifactUri = buildArtifactUri(j, ResultFilename)
            /\ req[p].reason = NULL =>
                   /\ ~\E i \in DOMAIN ws : ws[i].by = p /\ ws[i].new = "FAILED"
                   /\ req[p].pc \in {"complete", "completed", "auditComplete", "done"}
                   /\ req[p].pc # "complete" => wroteSucceeded
                   /\ req[p].pc = "done" => req[p].resp = Resp(200, "OK")
            /\ wroteSucceeded =>
                   /\ jobs[j].result = req[p].out.result
                   /\ jobs[j].artifactUri = req[p].out.artifactUri
                   /\ ws[Len(ws)].by = p /\ ws[Len(ws)].new = "SUCCEEDED"
                          => jobs[j].status = "SUCCEEDED"

\* C14 witness: a startJob whose artifact write failed has answered 200 and
\* the job is SUCCEEDED with its would-be URI.
C14_Witness ==
    \E p \in Procs :
        /\ ArtifactWriteFailed(p) /\ req[p].pc = "done"
        /\ req[p].resp = Resp(200, "OK")
        /\ jobs[req[p].jobId].status = "SUCCEEDED"
        /\ jobs[req[p].jobId].artifactUri = buildArtifactUri(req[p].jobId, ResultFilename)

\* The events a request appended, as <<type, oldStatus, newStatus>> in
\* creation order, and the status writes it applied, as <<old, new>>.
EventsBy(p) ==
    LET es == SelectSeq(events, LAMBDA e : e.by = p) IN
    [i \in DOMAIN es |-> <<es[i].type, es[i].oldStatus, es[i].newStatus>>]
WritesBy(p) ==
    LET ws == SelectSeq(writes, LAMBDA w : w.by = p) IN
    [i \in DOMAIN ws |-> <<ws[i].old, ws[i].new>>]

\* A startJob that won PENDING->RUNNING on a job of type TEE.
TeeStarted(p) ==
    /\ req[p].kind = "start" /\ req[p].job.type = "TEE"
    /\ <<"PENDING", "RUNNING">> \in Range(WritesBy(p))

\* C15: a startJob that won PENDING->RUNNING on a TEE job has, when it
\* answers, written only that transition and appended STARTED then a
\* PROGRESS event with null statuses; no adapter ran; the job is RUNNING
\* unless a cancelJob or a webhook found it, and every terminal status
\* written to a TEE job is written by a cancelJob or a webhook.
C15_TeeLeftRunning ==
    /\ \A p \in Procs :
          (TeeStarted(p) /\ req[p].pc = "done") =>
              LET j == req[p].jobId IN
              /\ req[p].resp = Resp(200, "OK")
              /\ WritesBy(p) = << <<"PENDING", "RUNNING">> >>
              /\ EventsBy(p) = << <<"STARTED", "PENDING", "RUNNING">>,
                                  <<"PROGRESS", NULL, NULL>> >>
              /\ adapterRuns[j] = 0
              /\ (\A q \in OnJob(j) : req[q].kind \notin {"cancel", "webhook"})
                     => jobs[j].status = "RUNNING"
    /\ \A i \in DOMAIN writes :
          (jobs[writes[i].jobId].type = "TEE" /\ writes[i].new \in TerminalStatus)
              => /\ writes[i].by \in Procs
                 /\ req[writes[i].by].kind \in {"cancel", "webhook"}

\* C15 witness: a TEE job started, left RUNNING, and later canceled.
C15_Witness ==
    \E p, q \in Procs :
        /\ TeeStarted(p) /\ req[p].pc = "done"
        /\ req[q].kind = "cancel" /\ req[q].jobId = req[p].jobId
        /\ req[q].job.status = "RUNNING" /\ req[q].resp = Resp(200, "OK")
        /\ jobs[req[p].jobId].status = "CANCELED"

\* ----------------------------------------------------------- policy claims
\* The conditions of spec 4.2, stated on the tables.
Outsider(org, cid) ==
    ~\E c \in collaborations :
        /\ c.id = cid
        /\ \/ c.ownerOrgId = org
           \/ \E m \in participants : m.collaborationId = cid /\ m.orgId = org
Referenced(body) ==
    {body.input.spec.datasets[i].datasetId : i \in DOMAIN body.input.spec.datasets}
DatasetExists(id) == \E d \in datasets : d.id = id
OwnerParticipates(id, cid) ==
    \A d \in datasets :
        d.id = id => \E m \in participants :
                        m.collaborationId = cid /\ m.orgId = d.orgId
Consented(id) == \E k \in consents : k.datasetId = id

\* A createJob request whose body is an SMPC job with an SMPC input.
SmpcCreate(p) ==
    /\ req[p].kind = "create"
    /\ req[p].body.type = "SMPC" /\ req[p].body.input.type = "SMPC"
DeniedWith(p, reason) == req[p].resp = Resp(403, reason)
Denied(p) == req[p].kind = "create" /\ req[p].resp.status = 403

DenialReasons ==
    {"COLLAB_NOT_FOUND_OR_FORBIDDEN", "NOT_A_PARTICIPANT", "ROLE_FORBIDDEN",
     "DATASET_NOT_FOUND", "DATASET_ORG_NOT_PARTICIPANT", "MISSING_CONSENT"}

\* C16: a createJob the policy denied answered 403 with the denial reason
\* and wrote nothing: it has no job, no event and no audit record, and when
\* every request so far was denied the three tables are empty.
C16_DenyWritesNothing ==
    /\ \A p \in Procs :
          Denied(p) =>
              /\ req[p].pc = "done"
              /\ req[p].resp.code \in DenialReasons
              /\ req[p].jobId = 0
              /\ ~\E k \in DOMAIN events : events[k].by = p
              /\ ~\E a \in auditLog : a.by = p
    /\ (\A p \in Procs : req[p].kind = "none" \/ Denied(p))
          => jobs = <<>> /\ events = <<>> /\ auditLog = {}

\* C16 witness: a createJob for an unconsented dataset was denied.
C16_Witness ==
    \E p \in Procs :
        /\ SmpcCreate(p) /\ DeniedWith(p, "MISSING_CONSENT")
        /\ \E id \in Referenced(req[p].body) : ~Consented(id)
        /\ jobs = <<>>

\* C17: for an SMPC createJob whose caller passes the membership check and
\* whose referenced datasets all exist and belong to participants, the
\* verdict is MISSING_CONSENT exactly when a referenced dataset has no
\* consent.
C17_MissingConsentIff ==
    \A p \in Procs :
        LET body == req[p].body IN
        (/\ SmpcCreate(p)
         /\ ~Outsider(req[p].org, body.collaborationId)
         /\ \A id \in Referenced(body) :
               DatasetExists(id) /\ OwnerParticipates(id, body.collaborationId))
            => (DeniedWith(p, "MISSING_CONSENT")
                    <=> \E id \in Referenced(body) : ~Consented(id))

\* C18: a createJob by an organization that neither owns the named
\* collaboration nor participates in it, or naming no existing
\* collaboration, is denied COLLAB_NOT_FOUND_OR_FORBIDDEN whatever its type
\* and spec.
C18_OutsiderDenied ==
    \A p \in Procs :
        (req[p].kind = "create" /\ Outsider(req[p].org, req[p].body.collaborationId))
            => /\ DeniedWith(p, "COLLAB_NOT_FOUND_OR_FORBIDDEN")
               /\ req[p].pc = "done" /\ req[p].jobId = 0

\* C18 witness: outsiders were denied for an SMPC body on an existing
\* collaboration.
C18_Witness ==
    \E p \in Procs :
        /\ SmpcCreate(p) /\ req[p].org = "X" /\ req[p].body.collaborationId = "C"
        /\ DeniedWith(p, "COLLAB_NOT_FOUND_OR_FORBIDDEN")

\* The reason of the earliest violated condition, NULL when none is. The
\* role condition cannot be violated: every CollaborationRole may submit.
FirstViolated(org, body) ==
    LET cid == body.collaborationId
        ids == Referenced(body)
    IN
    IF Outsider(org, cid) THEN "COLLAB_NOT_FOUND_OR_FORBIDDEN"
    ELSE IF body.type # "SMPC" THEN NULL
    ELSE IF \E id \in ids : ~DatasetExists(id) THEN "DATASET_NOT_FOUND"
    ELSE IF \E id \in ids : ~OwnerParticipates(id, cid)
        THEN "DATASET_ORG_NOT_PARTICIPANT"
    ELSE IF \E id \in ids : ~Consented(id) THEN "MISSING_CONSENT"
    ELSE NULL

\* C19: the checks are evaluated in a fixed order: for a body whose type is
\* its input's type, a request with a violated condition is denied with
\* the reason of the earliest violated one, and a request that was admitted
\* violates none.
C19_FirstFailingReason ==
    \A p \in Procs :
        (req[p].kind = "create" /\ req[p].body.type = req[p].body.input.type) =>
            LET first == FirstViolated(req[p].org, req[p].body) IN
            /\ first # NULL => DeniedWith(p, first)
            /\ (req[p].pc \in {"persist", "queued", "audit"}
                    \/ req[p].resp.status = 201) => first = NULL

\* The events request p appended.
EventRowsBy(p) == {events[k] : k \in {i \in DOMAIN events : events[i].by = p}}

\* The payload cancelJob records: the reason when the body gave one.
CancelPayload(reason) == IF reason # NULL THEN <<"reason", reason>> ELSE <<>>

\* C20: a cancelJob answers 200 only when its own conditional update moved
\* the job from PENDING or RUNNING to CANCELED, and it then appended exactly
\* one STATUS_CHANGE event to CANCELED carrying the reason when given; a
\* cancelJob that read a terminal job, or that read a live job but did not
\* win the update, answers 409 INVALID_STATE and writes no status and no
\* event.
C20_CancelOutcome ==
    \A p \in Procs :
        (req[p].kind = "cancel" /\ req[p].resp.status # 404) =>
            /\ req[p].resp.status = 200 =>
                   /\ Len(WritesBy(p)) = 1
                   /\ WritesBy(p)[1][1] \in {"PENDING", "RUNNING"}
                   /\ WritesBy(p)[1][2] = "CANCELED"
                   /\ Cardinality(EventRowsBy(p)) = 1
                   /\ Len(EventsBy(p)) = 1
                   /\ \A e \in EventRowsBy(p) :
                         /\ e.type = "STATUS_CHANGE" /\ e.newStatus = "CANCELED"
                         /\ e.jobId = req[p].jobId
                         /\ e.data = CancelPayload(req[p].reason)
            /\ req[p].job.status \in TerminalStatus =>
                   /\ req[p].pc = "done"
                   /\ req[p].resp = Resp(409, "INVALID_STATE")
                   /\ WritesBy(p) = <<>> /\ EventsBy(p) = <<>>
            /\ (req[p].pc = "done" /\ WritesBy(p) = <<>>) =>
                   /\ req[p].resp = Resp(409, "INVALID_STATE")
                   /\ EventsBy(p) = <<>>

\* C20 witness: of two cancelJob requests that read the job live, one gave a
\* reason and answered 200, the other lost the update and answered 409.
C20_Witness ==
    \E p, q \in Procs :
        /\ req[p].kind = "cancel" /\ req[q].kind = "cancel"
        /\ req[p].reason # NULL /\ req[p].resp = Resp(200, "OK")
        /\ \E e \in EventRowsBy(p) : e.data = <<"reason", req[p].reason>>
        /\ req[q].job.status \in {"PENDING", "RUNNING"}
        /\ req[q].resp = Resp(409, "INVALID_STATE")

\* ------------------------------------------------------------- scope claims
\* The first step of request p is taken: a startJob, cancelJob or getJobById
\* arrives.
Arrives(p, kinds) == req[p].kind = "none" /\ req'[p].kind \in kinds
\* The collaboration of stored job j.
CollabOf(j) == jobs[j].collaborationId

\* C21: a startJob, cancelJob or getJobById for a job id that does not exist,
\* or by an organization that is neither owner nor participant of the job's
\* collaboration, is answered 404 JOB_NOT_FOUND at once, the same response
\* in both cases, and leaves the job, its events, the audit log and the
\* artifacts unchanged, whatever the job's status.
C21_OutOfScopeIsNotFound ==
    [][\A p \in Procs :
        Arrives(p, {"start", "cancel", "get"}) =>
            LET j == req'[p].jobId
                hidden == \/ j \notin DOMAIN jobs
                          \/ Outsider(req'[p].org, CollabOf(j))
            IN hidden =>
                /\ req'[p].resp = Resp(404, "JOB_NOT_FOUND")
                /\ req'[p].pc = "done"
                /\ req'[p].job = NoJob
                /\ UNCHANGED <<jobs, events, auditLog, artifacts, writes>>]_vars

\* The startJob of X, which never was in the job's scope, met the stored
\* job and was answered 404; the job has since gone on to another status.
C21_Witness ==
    \E p \in Procs :
        /\ req[p].kind = "start" /\ req[p].org = "X" /\ req[p].following
        /\ req[p].resp = Resp(404, "JOB_NOT_FOUND")
        /\ "X" \notin jobs[req[p].jobId].scopeAtCreate
        /\ ~\E m \in participants : m.orgId = "X"
        /\ jobs[req[p].jobId].status # "PENDING"

\* C22: startJob decides by the membership at the time of the call. An
\* organization that was in scope when the job was created and no longer is
\* gets 404 JOB_NOT_FOUND and the job is unchanged; an organization that
\* joined after the job was created finds a PENDING job and goes on to
\* start it.
C22_ScopeAtStartTime ==
    [][\A p \in Procs :
        (Arrives(p, {"start"}) /\ req'[p].jobId \in DOMAIN jobs) =>
            LET j == req'[p].jobId
                org == req'[p].org
            IN
            /\ (org \in jobs[j].scopeAtCreate /\ Outsider(org, CollabOf(j))) =>
                  /\ req'[p].resp = Resp(404, "JOB_NOT_FOUND")
                  /\ jobs' = jobs
            /\ (org \notin jobs[j].scopeAtCreate /\ ~Outsider(org, CollabOf(j))
                    /\ jobs[j].status = "PENDING") =>
                  /\ req'[p].pc = "transition"
                  /\ req'[p].resp = NoResp]_vars

\* X was a participant when the job was created, left, and its startJob of
\* the existing PENDING job was answered 404; the job is still PENDING.
C22_Witness ==
    \E p \in Procs :
        /\ req[p].kind = "start" /\ req[p].org = "X" /\ req[p].following
        /\ req[p].resp = Resp(404, "JOB_NOT_FOUND")
        /\ "X" \in jobs[req[p].jobId].scopeAtCreate
        /\ jobs[req[p].jobId].status = "PENDING"

\* X joined after the job was created and its startJob won the transition.
C22_JoinedLater ==
    \E p \in Procs :
        /\ req[p].kind = "start" /\ req[p].org = "X"
        /\ req[p].jobId \in DOMAIN jobs
        /\ "X" \notin jobs[req[p].jobId].scopeAtCreate
        /\ \E i \in DOMAIN writes : writes[i].by = p /\ writes[i].new = "RUNNING"

\* ------------------------------------------------------------- audit claims
\* Request p has ended having changed the job or its event log.
Mutated(p) ==
    /\ req[p].pc = "done"
    /\ \/ req[p].kind = "create" /\ req[p].resp.status = 201
       \/ req[p].kind = "start" /\ \E i \in DOMAIN writes :
             writes[i].by = p /\ writes[i].old = "PENDING" /\ writes[i].new = "RUNNING"
       \/ req[p].kind = "cancel" /\ req[p].resp.status = 200
       \/ req[p].kind = "webhook" /\ (Wrote(p) \/ EventRowsBy(p) # {})
\* An audit row of request p about its job exists.
Audited(p) == \E a \in auditLog : a.by = p /\ a.jobId = req[p].jobId

\* C23: every mutating job operation that succeeded has left an audit
\* record: a createJob answered 201, a startJob that won its transition, a
\* cancelJob answered 200, and a jobWebhook that changed the status or
\* appended an event each have an audit row for that request and job once
\* the request has ended.
C23_MutationAudited == \A p \in Procs : Mutated(p) => Audited(p)

\* The same for the three authenticated operations alone.
C23_ApiMutationAudited ==
    \A p \in Procs : (Mutated(p) /\ req[p].kind # "webhook") => Audited(p)

\* -------------------------------------------------------------- list claims
\* Stored job i is in the scope of org and passes the type, status,
\* collaboration and creation-time filters of query.
Listable(i, org, query) ==
    /\ ~Outsider(org, jobs[i].collaborationId)
    /\ query.type = NULL \/ jobs[i].type = query.type
    /\ query.status = NULL \/ jobs[i].status = query.status
    /\ query.collaborationId = NULL
          \/ jobs[i].collaborationId = query.collaborationId
    /\ query.createdAfter = 0 \/ i >= query.createdAfter
    /\ query.createdBefore = 0 \/ i <= query.createdBefore

\* C24: listJobs returns only jobs of collaborations the caller owns or
\* participates in that satisfy every supplied filter (type, status,
\* collaborationId, creation-time range); without an id search, total is
\* the number of such jobs and the pages together hold exactly them; a
\* status=FAILED query with no failed job in scope answers jobs=[] and
\* total=0.
C24_ListScopedAndFiltered ==
    \A p \in Procs :
        (req[p].kind = "list" /\ req[p].pc = "done") =>
            LET org == req[p].org
                query == req[p].query
                such == {i \in DOMAIN jobs : Listable(i, org, query)}
                listed == Range(req[p].list.jobs)
            IN
            /\ req[p].resp = Resp(200, "OK")
            /\ listed \subseteq such
            /\ query.q = <<>> =>
                  /\ req[p].list.total = Cardinality(such)
                  /\ (query.page = 1 /\ query.pageSize >= Cardinality(such))
                         => listed = such
            /\ (query.status = "FAILED"
                   /\ ~\E i \in DOMAIN jobs :
                          jobs[i].status = "FAILED"
                          /\ ~Outsider(org, jobs[i].collaborationId)) =>
                  /\ req[p].list.jobs = <<>>
                  /\ req[p].list.total = 0

\* A asked for status=FAILED alone; the store holds a FAILED job of
\* collaboration Z (not A's) and a job of collaboration C that did not
\* fail: the list is empty and total is 0.
C24_Witness ==
    \E p \in Procs :
        /\ req[p].kind = "list" /\ req[p].pc = "done" /\ req[p].org = "A"
        /\ req[p].query = [NoQuery EXCEPT !.status = "FAILED"]
        /\ \E i, k \in DOMAIN jobs :
              /\ jobs[i].collaborationId = "Z" /\ jobs[i].status = "FAILED"
              /\ jobs[k].collaborationId = "C" /\ jobs[k].status = "SUCCEEDED"
        /\ req[p].list.jobs = <<>> /\ req[p].list.total = 0

\* ---------------------------------------------------------- artifact claims
\* C25: for any job id and the filename result.json, the URI that
\* writeJsonArtifact returns, and the one buildArtifactUri builds, in the
\* public-base form and in the file:// form, is mapped back by
\* extractFilenameFromUri to exactly result.json.
C25_UriRoundTrip ==
    /\ \A j \in 1..MaxJobsL :
          extractFilenameFromUri(buildArtifactUri(j, <<"result.json">>))
              = <<"result.json">>
    /\ \A p \in Procs :
          (/\ req[p].kind = "write" /\ req[p].pc = "done"
           /\ req[p].filename = <<"result.json">>) =>
              extractFilenameFromUri(req[p].uri) = <<"result.json">>

\* result.json was written under a public base and the URI returned is the
\* base, the job id and the filename.
C25_Witness ==
    \E p \in Procs :
        /\ req[p].kind = "write" /\ req[p].pc = "done"
        /\ req[p].filename = <<"result.json">>
        /\ env.artifact.publicBase # <<>>
        /\ req[p].uri =
               env.artifact.publicBase \o <<"/", ToString(req[p].jobId), "/", "result.json">>
        /\ req[p].path \in artifacts

\* The filename has a parent-directory segment or is absolute.
Unsafe(filename) ==
    \/ \E i \in DOMAIN filename :
          /\ filename[i] = ".."
          /\ i = 1 \/ filename[i - 1] = "/"
          /\ i = Len(filename) \/ filename[i + 1] = "/"
    \/ filename # <<>> /\ filename[1] = "/"

\* writeJsonArtifact wrote job 1's file into the directory of job 2.
C26_WroteOutside ==
    \E p \in Procs :
        /\ req[p].kind = "write" /\ req[p].jobId = 1
        /\ req[p].path \in artifacts
        /\ req[p].path = getArtifactPath(2, <<"result.json">>)

\* C26: no store path is resolved from a filename that has a
\* parent-directory segment or is absolute: writeJsonArtifact, the artifact
\* download and the artifact info each reject such a filename first.
C26_TraversalGuarded ==
    \A p \in Procs :
        (req[p].kind \in {"write", "download", "info"} /\ req[p].path # <<>>)
            => ~Unsafe(req[p].filename)

\* The same for the artifact download alone.
C26_DownloadGuarded ==
    \A p \in Procs :
        (req[p].kind = "download" /\ req[p].path # <<>>) => ~Unsafe(req[p].filename)

\* ----------------------------------------------------- bookkeeping failures
\* Status write or status event of request p towards `to`.
WroteStatus(p, to) ==
    \E i \in DOMAIN writes : writes[i].by = p /\ writes[i].new = to
AppendedTransition(p, from, to) ==
    \E k \in DOMAIN events :
        events[k].by = p /\ events[k].oldStatus = from /\ events[k].newStatus = to

\* C27: when the adapter returned in a startJob and the request wrote the
\* job SUCCEEDED, a later failure of the request's bookkeeping (the
\* COMPLETED event, the audit record) neither writes FAILED nor appends a
\* RUNNING->FAILED event: startJob records FAILED only when the adapter
\* itself threw.
C27_BookkeepingFailureKeepsSucceeded ==
    \A p \in Procs :
        (/\ req[p].kind = "start"
         /\ req[p].out.result # NULL
         /\ WroteStatus(p, "SUCCEEDED")) =>
            /\ ~WroteStatus(p, "FAILED")
            /\ ~AppendedTransition(p, "RUNNING", "FAILED")

\* ------------------------------------------------------------ output claims
\* C28: a job's artifactUri and result are write-once and its input is
\* immutable: no step of any request changes an artifactUri or a result
\* that is set, nor the input of a stored job.
C28_OutputsWriteOnce ==
    [][\A j \in DOMAIN jobs :
          /\ j \in DOMAIN jobs'
          /\ jobs[j].artifactUri # NoUri => jobs'[j].artifactUri = jobs[j].artifactUri
          /\ jobs[j].result # NULL => jobs'[j].result = jobs[j].result
          /\ jobs'[j].input = jobs[j].input]_vars

\* A job was completed by startJob and a later callback rewrote its
\* status; the row still holds the URI and the result startJob stored and
\* the input createJob stored.
C28_Witness ==
    \E j \in DOMAIN jobs, p, c \in Procs :
        /\ req[p].kind = "start" /\ req[p].jobId = j /\ WroteStatus(p, "SUCCEEDED")
        /\ req[c].kind = "create" /\ req[c].jobId = j
        /\ \E i \in DOMAIN writes : writes[i].jobId = j /\ writes[i].old = "SUCCEEDED"
        /\ jobs[j].artifactUri = req[p].out.artifactUri
        /\ jobs[j].artifactUri # NoUri
        /\ jobs[j].result = req[p].out.result
        /\ jobs[j].input = sanitizeJobInputForStorage(req[c].body.input)

\* C29: in every state a job whose artifactUri or result is set has status
\* SUCCEEDED or FAILED; a job in PENDING, RUNNING or CANCELED has neither.
HasOutputs(j) == jobs[j].artifactUri # NoUri \/ jobs[j].result # NULL
C29_OutputsOnlyWhenCompleted ==
    \A j \in DOMAIN jobs :
        /\ HasOutputs(j) => jobs[j].status \in {"SUCCEEDED", "FAILED"}
        /\ jobs[j].status \in {"PENDING", "RUNNING", "CANCELED"} => ~HasOutputs(j)

\* A cancelJob raced an in-flight startJob: the cancel replaced RUNNING by
\* CANCELED before the start request stored its outputs, and the row that
\* holds the outputs is SUCCEEDED.
C29_Witness ==
    \E j \in DOMAIN jobs, p, c \in Procs :
        /\ req[p].kind = "start" /\ req[c].kind = "cancel"
        /\ \E i, k \in DOMAIN writes :
              /\ i < k
              /\ writes[i] = [jobId |-> j, old |-> "RUNNING", new |-> "CANCELED",
                              by |-> c]
              /\ writes[k] = [jobId |-> j, old |-> "CANCELED", new |-> "SUCCEEDED",
                              by |-> p]
        /\ HasOutputs(j)
        /\ jobs[j].status = "SUCCEEDED"

\* The other order of the race: the start request stored its outputs
\* first, and the cancel that had read the job RUNNING changed nothing.
C29_CancelLost ==
    \E j \in DOMAIN jobs, p, c \in Procs :
        /\ req[p].kind = "start" /\ WroteStatus(p, "SUCCEEDED")
        /\ req[c].kind = "cancel" /\ req[c].jobId = j /\ req[c].pc = "done"
        /\ req[c].job.status = "RUNNING"
        /\ ~WroteStatus(c, "CANCELED")
        /\ HasOutputs(j)

\* ----------------------------------------------------------- progress claim
\* C30: a startJob request that committed the PENDING->RUNNING transition
\* of an SMPC job (status written, STARTED event appended) does not return
\* before it has invoked the adapter and written SUCCEEDED or FAILED,
\* unless the job was canceled meanwhile; a failure of the JOB_START audit
\* write does not end the request.
CommittedStart(p) ==
    /\ req[p].kind = "start"
    /\ req[p].jobId \in DOMAIN jobs
    /\ jobs[req[p].jobId].type = "SMPC"
    /\ WroteStatus(p, "RUNNING")
    /\ AppendedTransition(p, "PENDING", "RUNNING")
CanceledMeanwhile(j) ==
    \E i \in DOMAIN writes : writes[i].jobId = j /\ writes[i].new = "CANCELED"
C30_CommittedStartRunsAdapter ==
    \A p \in Procs :
        CommittedStart(p) /\ req[p].pc = "done" =>
            \/ /\ adapterRuns[req[p].jobId] > 0
               /\ WroteStatus(p, "SUCCEEDED") \/ WroteStatus(p, "FAILED")
            \/ CanceledMeanwhile(req[p].jobId)

\* The state the claim excludes: the request has answered, the job is
\* RUNNING, the adapter was never invoked and no request is in flight.
C30_LeftRunning ==
    \E p \in Procs :
        /\ CommittedStart(p) /\ req[p].pc = "done"
        /\ req[p].resp.status = 500
        /\ jobs[req[p].jobId].status = "RUNNING"
        /\ adapterRuns[req[p].jobId] = 0
        /\ \A q \in Procs : req[q].kind = "none" \/ req[q].pc = "done"

\* ------------------------------------------------------------ policy claims
\* The verdict a createJob request received in this step.
Verdict(p) == req'[p].resp
NoParticipantRow(cid, org) ==
    ~\E m \in participants : m.collaborationId = cid /\ m.orgId = org
OwnedBy(id, org) == \A d \in datasets : d.id = id => d.orgId = org

\* C31: the collaboration's owner counts as a participant for the
\* dataset-owner check: an SMPC createJob by the owner, who has no
\* CollaborationParticipant row, over existing, consented datasets of the
\* owner organization is admitted, not denied.
C31_OwnerIsImplicitParticipant ==
    [][\A p \in Procs :
          LET body == req'[p].body
              org == req'[p].org
          IN
          (/\ Arrives(p, {"create"})
           /\ body.type = "SMPC" /\ body.input.type = "SMPC"
           /\ \E c \in collaborations : c.id = body.collaborationId /\ c.ownerOrgId = org
           /\ NoParticipantRow(body.collaborationId, org)
           /\ \A id \in Referenced(body) :
                 DatasetExists(id) /\ OwnedBy(id, org) /\ Consented(id))
              => /\ Verdict(p).status # 403
                 /\ req'[p].pc = "persist"]_vars

\* The owner was denied DATASET_ORG_NOT_PARTICIPANT for its own consented
\* dataset, in a collaboration it owns.
C31_OwnerDenied ==
    \E p \in Procs :
        /\ SmpcCreate(p) /\ DeniedWith(p, "DATASET_ORG_NOT_PARTICIPANT")
        /\ \E c \in collaborations :
              c.id = req[p].body.collaborationId /\ c.ownerOrgId = req[p].org
        /\ \A id \in Referenced(req[p].body) :
              DatasetExists(id) /\ OwnedBy(id, req[p].org) /\ Consented(id)

\* C32: given that the membership checks pass, an SMPC createJob is denied
\* DATASET_NOT_FOUND exactly when a dataset id its spec references does
\* not exist; listing an existing id more than once changes nothing.
C32_DatasetNotFoundIff ==
    \A p \in Procs :
        (SmpcCreate(p) /\ ~Outsider(req[p].org, req[p].body.collaborationId))
            => (DeniedWith(p, "DATASET_NOT_FOUND")
                    <=> \E id \in Referenced(req[p].body) : ~DatasetExists(id))

\* A spec listing the existing dataset D twice was denied DATASET_NOT_FOUND.
C32_RepeatedIdDenied ==
    \E p \in Procs :
        /\ SmpcCreate(p) /\ DeniedWith(p, "DATASET_NOT_FOUND")
        /\ Len(req[p].body.input.spec.datasets) = 2
        /\ Referenced(req[p].body) = {"D"}
        /\ DatasetExists("D")

\* C33: with the store reachable, a createJob for any body the schema
\* accepts, one whose type differs from its input's type included, ends in
\* 201 with a persisted job or in 403 with a denial reason; the policy does
\* not throw.
C33_CreateEndsIn201Or403 ==
    \A p \in Procs :
        (req[p].kind = "create" /\ req[p].pc = "done") =>
            \/ /\ req[p].resp.status = 201
               /\ req[p].jobId \in DOMAIN jobs
            \/ /\ req[p].resp.status = 403
               /\ req[p].resp.code \in DenialReasons

\* A member's createJob with type SMPC and a TEE input was answered 500.
C33_PolicyThrew ==
    \E p \in Procs :
        /\ req[p].kind = "create" /\ req[p].pc = "done"
        /\ req[p].body.type = "SMPC" /\ req[p].body.input.type = "TEE"
        /\ ~Outsider(req[p].org, req[p].body.collaborationId)
        /\ req[p].resp = Resp(500, "INTERNAL")
        /\ jobs = <<>>

\* C34: every persisted job has the type of its stored input, so a stored
\* job whose input is an SMPC spec passed the dataset-existence,
\* dataset-owner and consent checks when it was admitted.
SmpcInput(j) == jobs[j].input.type = "SMPC"
StoredReferenced(j) ==
    {jobs[j].input.spec.datasets[i].datasetId :
        i \in DOMAIN jobs[j].input.spec.datasets}
C34_StoredTypeIsInputType ==
    \A j \in DOMAIN jobs :
        /\ jobs[j].type = jobs[j].input.type
        /\ SmpcInput(j) =>
              \A id \in StoredReferenced(j) :
                  /\ DatasetExists(id)
                  /\ OwnerParticipates(id, jobs[j].collaborationId)
                  /\ Consented(id)

\* A job of type TEE is stored with an SMPC spec over a dataset that does
\* not exist.
C34_UncheckedSmpcInput ==
    \E j \in DOMAIN jobs :
        /\ jobs[j].type = "TEE" /\ SmpcInput(j)
        /\ \E id \in StoredReferenced(j) : ~DatasetExists(id)

\* ----------------------------------------------------------- webhook claims
\* Request p takes a step.
Steps(p) == req'[p] # req[p]
ProgressWebhook(p) == req'[p].kind = "webhook" /\ req'[p].event = "PROGRESS"

\* C35: a PROGRESS webhook for an existing job appends exactly one event,
\* with null oldStatus and newStatus, and no step of it changes the job's
\* status, result or artifactUri, whatever the job's status; a webhook
\* naming an unknown job id answers 404 and writes nothing.
C35_ProgressAppendsOnly ==
    [][\A p \in Procs :
          /\ (Steps(p) /\ ProgressWebhook(p)) =>
                /\ jobs' = jobs
                /\ UNCHANGED <<auditLog, artifacts, writes>>
                /\ IF req'[p].pc = "done" /\ req'[p].resp.status = 200
                   THEN /\ ~\E k \in DOMAIN events : events[k].by = p
                        /\ events' = Append(events,
                              [jobId |-> req[p].jobId, type |-> "PROGRESS",
                               oldStatus |-> NULL, newStatus |-> NULL,
                               data |-> req[p].data, by |-> p])
                   ELSE events' = events
          /\ (Arrives(p, {"webhook"}) /\ req'[p].jobId \notin DOMAIN jobs) =>
                /\ req'[p].pc = "done"
                /\ req'[p].resp = Resp(404, "JOB_NOT_FOUND")
                /\ UNCHANGED <<jobs, events, auditLog, artifacts, writes>>]_vars

\* A PROGRESS webhook was answered 200 for a job that had SUCCEEDED with its
\* outputs stored: the job is as it was and the request's one event is the
\* latest, without statuses.
C35_Witness ==
    \E p \in Procs, j \in DOMAIN jobs :
        /\ req[p].kind = "webhook" /\ req[p].event = "PROGRESS"
        /\ req[p].jobId = j /\ req[p].resp = Resp(200, "OK")
        /\ req[p].job.status = "SUCCEEDED"
        /\ jobs[j].status = "SUCCEEDED" /\ jobs[j].artifactUri # NoUri
        /\ Cardinality({k \in DOMAIN events : events[k].by = p}) = 1
        /\ events[Len(events)].by = p
        /\ events[Len(events)].oldStatus = NULL
        /\ events[Len(events)].newStatus = NULL

\* A webhook named a job id that no row has and was answered 404.
C35_UnknownJob ==
    \E p \in Procs :
        /\ req[p].kind = "webhook" /\ req[p].resp = Resp(404, "JOB_NOT_FOUND")
        /\ jobs = <<>> /\ events = <<>> /\ auditLog = {}

\* ------------------------------------------------------------ QUEUED claim
QueuedOf(j) == {k \in DOMAIN events : events[k].jobId = j /\ events[k].type = "QUEUED"}
CreateInFlight == \E p \in Procs : req[p].kind = "create" /\ req[p].pc # "done"

\* C36: when no createJob request is in flight, every persisted job has
\* exactly one QUEUED event, that event has null oldStatus and newStatus,
\* and it is the earliest event of the job.
C36_OneQueuedEventPerJob ==
    ~CreateInFlight =>
        \A j \in DOMAIN jobs :
            /\ Cardinality(QueuedOf(j)) = 1
            /\ \A k \in QueuedOf(j) :
                  /\ events[k].oldStatus = NULL /\ events[k].newStatus = NULL
                  /\ \A i \in DOMAIN events : events[i].jobId = j => k <= i

\* The createJob that persisted the job was answered 500 before it appended
\* the QUEUED event: the job is stored and has no event.
C36_JobWithoutQueued ==
    \E p \in Procs, j \in DOMAIN jobs :
        /\ req[p].kind = "create" /\ req[p].jobId = j
        /\ req[p].resp = Resp(500, "INTERNAL")
        /\ ~CreateInFlight
        /\ QueuedOf(j) = {}

\* -------------------------------------------------------- id search claim
IdStartsWith(id, q) == Len(q) <= Len(id) /\ SubSeq(id, 1, Len(q)) = q

\* C37: the q filter of listJobs is an id-prefix search: with q supplied,
\* the id of every returned job starts with q; a job whose id holds q only
\* at a later position is not returned.
C37_IdPrefixSearch ==
    \A p \in Procs :
        (req[p].kind = "list" /\ req[p].pc = "done" /\ req[p].query.q # <<>>) =>
            \A i \in Range(req[p].list.jobs) :
                IdStartsWith(JobUuid(jobs[i].id), req[p].query.q)

\* A query with q = b alone returned a job whose id is ab.
C37_MatchedInside ==
    \E p \in Procs :
        /\ req[p].kind = "list" /\ req[p].pc = "done"
        /\ req[p].query = [NoQuery EXCEPT !.q = <<"b">>]
        /\ \E i \in Range(req[p].list.jobs) :
              /\ JobUuid(jobs[i].id) = <<"a", "b">>
              /\ ~IdStartsWith(JobUuid(jobs[i].id), <<"b">>)

\* ------------------------------------------------------------- login claim
\* Five or more failed logins in a row were registered for the key, and
\* the clock reads less than the block after the latest of them.
RecentlyFailedFive(streak) ==
    /\ streak.n >= FAILED_LOGIN_MAX_ATTEMPTS
    /\ auth.now - streak.last < FAILED_LOGIN_BLOCK_MS
\* A login request begins at slot p in this step.
LoginBegins(p) == req[p].pc \in {"idle", "done"} /\ req'[p] # req[p]

C38_Cleared ==
    \E p \in ProcsF :
        /\ req[p].kind = "login" /\ req[p].resp = Resp(200, "OK")
        /\ auth.failedLoginByIp[req[p].ip] = NoEntry
        /\ auth.failedLoginByEmail["u@x.org"] = NoEntry
        /\ \E k \in LoginIps : auth.failedLoginByIp[k].count > 0

====
